---- MODULE Spec2Model ----
(***************************************************************************)
(* Model of webrtc::internal::VideoSendStreamImpl (video/video_send_stream.cc)*)
(* and of its CheckEncoderActivityTask: the stream lifecycle, the          *)
(* bitrate feedback loop and the encoder-activity watchdog.                *)
(*                                                                         *)
(* Conventions.                                                            *)
(*  - A uint32_t is a pair <<hi, lo>> of 16-bit limbs, so that arithmetic  *)
(*    modulo 2^32 is computed exactly.  An int or a size_t is an integer;  *)
(*    a size_t that wrapped below zero is the negative integer n standing  *)
(*    for 2^64 + n (LP64 build).                                           *)
(*  - Every method that runs on worker_queue_ is one atomic action; the    *)
(*    watchdog's Run() is two actions, split between its atomic load and   *)
(*    its atomic store of activity_, because OnEncodedImage runs on        *)
(*    encoder threads and can interleave there.                            *)
(*  - `last` is a history variable: the operation that ran last, its       *)
(*    arguments, the calls it made on its collaborators and its result.    *)
(***************************************************************************)
EXTENDS Integers, Sequences, FiniteSets, TLC

VARIABLES
    send_side_bwe_with_overhead_,   \* field trial WebRTC-SendSideBwe-WithOverhead
    active_modules,                 \* payload_router_: per-module active flag
    check_encoder_activity_task_,   \* id of the current watchdog task, 0 = nullptr
    tasks,                          \* the CheckEncoderActivityTask objects
    allocator,                      \* bitrate_allocator_'s record of this observer
    encoder_min_bitrate_bps_,
    encoder_max_bitrate_bps_,
    max_padding_bitrate_,
    encoder_target_rate_bps_,
    overhead_bytes_per_packet_,
    transport_overhead_bytes_per_packet_,
    modules,                        \* rtp_rtcp_modules_: per-module settings
    config_,                        \* the VideoSendStream::Config in use
    suspended_ssrcs_,               \* RTP states of an earlier stream, by SSRC
    flexfec_sender_,                \* the FlexfecSender, NullSender = nullptr
    fec_controller_,                \* protection method given to the FEC controller
    feedback_packet_seq_num_set_,   \* sequence numbers that await feedback
    loss_mask_vector_,              \* loss mask for the next UpdateFecRates
    encoder_rate,                   \* last rate given to video_stream_encoder_
    stats_rate,                     \* last rate given to stats_proxy_
    crashed,                        \* the process trapped (division by zero, null)
    worker_queue_,                  \* the closures posted to the worker queue
    pc,                             \* statements the closure in front has run
    send_stream_,                   \* VideoSendStream::send_stream_ is not null
    thread_sync_event_,             \* VideoSendStream::thread_sync_event_ is set
    caller,                         \* the call VideoSendStream's thread is in
    last                            \* history: the operation that ran last

vars == <<send_side_bwe_with_overhead_, active_modules,
          check_encoder_activity_task_, tasks, allocator,
          encoder_min_bitrate_bps_, encoder_max_bitrate_bps_,
          max_padding_bitrate_, encoder_target_rate_bps_,
          overhead_bytes_per_packet_, transport_overhead_bytes_per_packet_,
          modules, config_, suspended_ssrcs_, flexfec_sender_,
          fec_controller_,
          feedback_packet_seq_num_set_, loss_mask_vector_, encoder_rate,
          stats_rate, crashed, worker_queue_, pc, send_stream_,
          thread_sync_event_, caller, last>>

\* Members that never change after construction.
constVars == <<send_side_bwe_with_overhead_, config_, suspended_ssrcs_>>
\* The watchdog: the current task pointer and the task objects.
watchdogVars == <<check_encoder_activity_task_, tasks>>
\* The bitrate bounds handed to the bandwidth allocator.
boundVars == <<encoder_min_bitrate_bps_, encoder_max_bitrate_bps_,
               max_padding_bitrate_>>
\* Overhead accounting and the packet size given to the RTP modules.
overheadVars == <<overhead_bytes_per_packet_,
                  transport_overhead_bytes_per_packet_, modules>>
\* The FlexFEC sender and what the FEC controller was told to protect with.
protectionVars == <<flexfec_sender_, fec_controller_>>
\* The packet-feedback tracker.
feedbackVars == <<feedback_packet_seq_num_set_, loss_mask_vector_>>
\* What the encoder and the statistics proxy were last told.
sinkVars == <<encoder_rate, stats_rate>>
\* The owning VideoSendStream: its pointer to the stream, the worker queue
\* it posts to and the event its thread waits on.
queueVars == <<worker_queue_, pc, send_stream_, thread_sync_event_, caller>>

(***************************************************************************)
(* Bounds of the model.                                                    *)
(***************************************************************************)
\* Number of media SSRCs of the stream, hence of RTP modules.
NumModules == 2
\* Number of CheckEncoderActivityTask objects that may exist at once.
MaxTasks == 2
\* Number of loss-mask entries that may wait for the next bitrate update.
MaxLossMask == 2
\* The largest RTP state a sender reaches: the packets it sends at most.
MaxRtpState == 1
\* The closures the worker queue holds at most.
MaxPosted == 2

(***************************************************************************)
(* uint32_t arithmetic on 16-bit limbs.                                    *)
(***************************************************************************)
Base == 65536

\* static_cast<uint32_t>(n) of an int n, |n| < 2^31.
U32(n) ==
    IF n >= 0 THEN <<n \div Base, n % Base>>
    ELSE <<(Base - 1) - ((-n - 1) \div Base), (Base - 1) - ((-n - 1) % Base)>>

\* a + b modulo 2^32.
Add32(a, b) ==
    LET lo == a[2] + b[2]
    IN  <<(a[1] + b[1] + (lo \div Base)) % Base, lo % Base>>

\* a - b modulo 2^32.
Sub32(a, b) ==
    LET lo == a[2] - b[2]
        borrow == IF lo < 0 THEN 1 ELSE 0
    IN  <<(a[1] - b[1] - borrow + Base) % Base, (lo + Base) % Base>>

\* a < b on uint32_t.
Lt32(a, b) == a[1] < b[1] \/ (a[1] = b[1] /\ a[2] < b[2])

Le32(a, b) == ~Lt32(b, a)

\* std::min(a, b) on uint32_t: b when b < a, else a.
Min32(a, b) == IF Lt32(b, a) THEN b ELSE a

\* std::max(a, b) on uint32_t: b when a < b, else a.
Max32(a, b) == IF Lt32(a, b) THEN b ELSE a

\* static_cast<uint32_t>(m * n) for 0 <= m < 2^15 and 0 <= n < 2^31: the
\* 64-bit product truncated to its low 32 bits.
MulTrunc32(m, n) ==
    LET lo == m * (n % Base)
    IN  <<(m * (n \div Base) + (lo \div Base)) % Base, lo % Base>>

\* The integer a uint32_t below 2^31 stands for.
Val(a) == a[1] * Base + a[2]

\* a + b + c = total in the integers (no sum wraps around).
SumIs(a, b, c, total) ==
    LET lo == a[2] + b[2] + c[2]
        hi == a[1] + b[1] + c[1] + (lo \div Base)
    IN  lo % Base = total[2] /\ hi = total[1]

(***************************************************************************)
(* The rate helpers of the anonymous namespace.                            *)
(***************************************************************************)
kDefaultEncoderMinBitrateBps == 30000

\* GetFallbackMinBpsFromFieldTrial().value_or(kDefaultEncoderMinBitrateBps).
\* trial_min_bps is the min_bps the field trial string carries when the call
\* reads it, 0 when the trial is disabled or malformed: only a min_bps > 0
\* is used.
GetEncoderMinBitrateBps(trial_min_bps) ==
    IF trial_min_bps > 0 THEN trial_min_bps ELSE kDefaultEncoderMinBitrateBps

IntMax(a, b) == IF a < b THEN b ELSE a

IntMin(a, b) == IF b < a THEN b ELSE a

RECURSIVE SumTargets(_, _)
\* streams[1].target_bitrate_bps + ... + streams[n].target_bitrate_bps
SumTargets(streams, n) ==
    IF n = 0 THEN 0
    ELSE SumTargets(streams, n - 1) + streams[n].target_bitrate_bps

CalculateMaxPadBitrateBps(streams, min_transmit_bitrate_bps, pad_to_min_bitrate) ==
    LET pad_up_to_bitrate_bps ==
            IF Len(streams) > 1
            THEN streams[Len(streams)].min_bitrate_bps
                 + SumTargets(streams, Len(streams) - 1)
            ELSE IF pad_to_min_bitrate THEN streams[1].min_bitrate_bps
            ELSE 0
    IN  IntMax(pad_up_to_bitrate_bps, min_transmit_bitrate_bps)

\* Mutant of CalculateOverheadRateBps: the overhead is counted in bytes.
CalculateOverheadRateBpsInBytes(packets_per_second, overhead_bytes, max_bps) ==
    Min32(MulTrunc32(overhead_bytes, packets_per_second), max_bps)

\* Mutant of CalculateOverheadRateBps: the overhead is not limited.
CalculateOverheadRateBpsUncapped(packets_per_second, overhead_bytes, max_bps) ==
    MulTrunc32(8 * overhead_bytes, packets_per_second)

\* packets_per_second >= 0, 8 * overhead_bytes < 2^15.
CalculateOverheadRateBps(packets_per_second, overhead_bytes, max_bps) ==
    Min32(MulTrunc32(8 * overhead_bytes, packets_per_second), max_bps)

\* (bitrate_bps + packet_size_bits - 1) / packet_size_bits in 64-bit size_t
\* arithmetic, for packet_size_bytes # 0.  For 0 < packet_size_bytes < 2^12
\* the 33-bit numerator is divided limb by limb; for a packet size that
\* wrapped below zero the divisor is 2^64 - k, k = -8 * packet_size_bytes, and
\* the numerator wraps past 2^64 exactly when bitrate_bps > k.
CalculatePacketRate(bitrate_bps, packet_size_bytes) ==
    IF packet_size_bytes > 0
    THEN LET packet_size_bits == 8 * packet_size_bytes
             n0 == bitrate_bps[2] + (packet_size_bits - 1)
             n1 == bitrate_bps[1] + (n0 \div Base)
             t0 == (n1 % packet_size_bits) * Base + (n0 % Base)
         IN  (n1 \div packet_size_bits) * Base + (t0 \div packet_size_bits)
    ELSE IF bitrate_bps = <<0, 0>> THEN 0
    ELSE IF Lt32(U32(-8 * packet_size_bytes), bitrate_bps) THEN 0
    ELSE 1

\* Outcome of the division by zero in CalculatePacketRate that traps.
DivByZeroTrap == -1

\* What CalculatePacketRate can return.  Dividing by zero is undefined: the
\* build either traps (x86 div) or yields 0 (ARM udiv).
PacketRates(bitrate_bps, packet_size_bytes) ==
    IF packet_size_bytes = 0 THEN {DivByZeroTrap, 0}
    ELSE {CalculatePacketRate(bitrate_bps, packet_size_bytes)}

(***************************************************************************)
(* Inputs the environment draws from.                                      *)
(***************************************************************************)
\* encoder_config.max_bitrate_bps given to the constructor (must be > 0).
InitialMaxBitrates == {600000}
\* config_->rtp.max_packet_size.
MaxPacketSizes == {1200}
\* min_bps of the forced-fallback field trial; 0: no (valid) trial.
FallbackMinBps == {0, 100000}
\* Bandwidth estimates the allocator hands to OnBitrateUpdated.
Bitrates == {U32(0), U32(3000), U32(1000000)}
\* Encoder target rates FecController::UpdateFecRates may return.
FecTargets == {U32(0), U32(2000), U32(800000), U32(1000000), U32(1200000),
               U32(-1)}
\* Estimates of the order of 2^32: 3,100,000,000 is <<47302, 16128>>.
WideBitrates == {U32(1000000), <<47302, 16128>>}
\* Per-packet overheads the RTP modules report to OnOverheadChanged.
Overheads == {20, 1200, 1700}
\* Arguments of SetTransportOverhead.
TransportOverheads == {0, 400, 1500, 1501}
\* The VideoStream values OnEncoderConfigurationChanged may carry.
VideoStreams ==
    [min_bitrate_bps : {10000, 50000}, target_bitrate_bps : {150000},
     max_bitrate_bps : {700000}, active : BOOLEAN]
\* The lists of streams: never empty, never longer than the SSRC list.
StreamLists == UNION {[1..n -> VideoStreams] : n \in 1..NumModules}
MinTransmitBitrates == {0, 100000}

\* The inputs of the lifecycle specification, where rates only pass through.
FewBitrates == {U32(1000000)}
FewFecTargets == {U32(0), U32(800000)}
FewStreamLists ==
    {<<[min_bitrate_bps |-> 50000, target_bitrate_bps |-> 150000,
        max_bitrate_bps |-> 700000, active |-> TRUE]>>}

\* config_->rtp of the lifecycle and rate specifications: no FEC, NACK on,
\* one media SSRC per module.
DefaultRtp ==
    [ssrcs |-> [i \in 1..NumModules |-> i], rtx_ssrcs |-> <<>>,
     flexfec_payload_type |-> -1, flexfec_ssrc |-> 0,
     protected_media_ssrcs |-> <<>>, rtp_history_ms |-> 1000,
     red_payload_type |-> -1, ulpfec_payload_type |-> -1,
     payload_name |-> "VP8"]

\* The values of config_->rtp (and encoder_settings.payload_name) the
\* protection specification draws from.  A payload type is -1 (disabled) or
\* in 0..127; 9 is an SSRC that is not a media SSRC of the stream.
FlexfecPayloadTypes == {-1, 0, 118}
FlexfecSsrcs == {0, 7}
ProtectedSsrcLists == {<<>>, <<1>>, <<9>>, <<1, 2>>}
NackHistories == {0, 1000}
RedPayloadTypes == {-1, 0, 96}
UlpfecPayloadTypes == {-1, 97, 127}
PayloadNames == {"VP8", "VP9", "H264"}
RtpConfigs ==
    [ssrcs : {[i \in 1..NumModules |-> i]}, rtx_ssrcs : {<<>>},
     flexfec_payload_type : FlexfecPayloadTypes, flexfec_ssrc : FlexfecSsrcs,
     protected_media_ssrcs : ProtectedSsrcLists,
     rtp_history_ms : NackHistories,
     red_payload_type : RedPayloadTypes,
     ulpfec_payload_type : UlpfecPayloadTypes,
     payload_name : PayloadNames]

\* The map of suspended RTP states of a stream that has no predecessor.
NoSuspended == <<>>

\* config_->rtp.rtx.ssrcs: none, or one RTX SSRC per media SSRC.
RtxSsrcLists == {<<>>, [i \in 1..NumModules |-> 10 + i]}

\* config_->rtp of the SSRC specification: with and without RTX, with and
\* without a FlexFEC sender of SSRC 7 that protects media SSRC 1.
SsrcRtpConfigs ==
    {[DefaultRtp EXCEPT !.rtx_ssrcs = rtx, !.flexfec_payload_type = fec[1],
                        !.flexfec_ssrc = fec[2],
                        !.protected_media_ssrcs = fec[3]] :
        rtx \in RtxSsrcLists, fec \in {<<-1, 0, <<>>>>, <<118, 7, <<1>>>>}}

\* The suspended states a first stream is constructed with: none, one for
\* media SSRC 1 only, and one for every SSRC the stream may use and for an
\* SSRC (99) it does not use.
SuspendedMaps ==
    {NoSuspended, (1 :> 1),
     [ssrc \in (1..NumModules) \cup {10 + i : i \in 1..NumModules}
                 \cup {7, 99} |-> 1]}

kSendSideSeqNumSetMaxSize == 5500

\* The first sequence number of a run of packets that is in the window.
FirstSent == 1000
\* The windows the feedback specification starts from: no packet, or a run
\* of kSendSideSeqNumSetMaxSize - 2 packets added earlier.
SentWindows == {{}, FirstSent..(FirstSent + kSendSideSeqNumSetMaxSize - 3)}
\* The SSRCs OnPacketAdded is called with: a media SSRC of the stream and
\* an SSRC of another stream.
PacketSsrcs == {1, 9}
\* The sequence numbers OnPacketAdded is called with.
AddedSeqNums == {1, 2, 3, FirstSent}
\* The reports of a feedback vector; lost stands for
\* arrival_time_ms == PacketFeedback::kNotReceived.
PacketFeedbacks == [sequence_number : {1, 2, 3}, lost : BOOLEAN]
\* The vectors OnPacketFeedbackVector is called with: one report, or a lost
\* report followed by a received one.
FeedbackVectors ==
    [1..1 -> PacketFeedbacks]
    \cup {v \in [1..2 -> PacketFeedbacks] : v[1].lost /\ ~v[2].lost}

(***************************************************************************)
(* The protection policy: MaybeCreateFlexfecSender and the rules of        *)
(* ConfigureProtection.                                                    *)
(***************************************************************************)
\* flexfec_sender_ == nullptr
NullSender == [created |-> FALSE, payload_type |-> -1, ssrc |-> 0,
               protected_media_ssrc |-> 0, rtp_state |-> 0]

\* Mutant of RestoredState: the suspended state is never looked up.
RestoredStateNever(suspended_ssrcs, ssrc, state) == state

\* The RTP state of a sender of that SSRC whose state was `state`, after
\* the lookup "it = suspended_ssrcs.find(ssrc); if (it != end()) restore
\* it->second".  An RTP state is a number: 0 for a sender that sent nothing
\* and had nothing restored, and one more with each packet sent.
RestoredState(suspended_ssrcs, ssrc, state) ==
    IF ssrc \in DOMAIN suspended_ssrcs THEN suspended_ssrcs[ssrc] ELSE state

\* Mutant of MaybeCreateFlexfecSender: several protected media SSRCs are
\* accepted and the first one is protected.
MaybeCreateFlexfecSenderFirst(rtp, suspended_ssrcs) ==
    IF rtp.flexfec_payload_type < 0 THEN NullSender
    ELSE IF rtp.flexfec_ssrc = 0 THEN NullSender
    ELSE IF Len(rtp.protected_media_ssrcs) = 0 THEN NullSender
    ELSE [created |-> TRUE, payload_type |-> rtp.flexfec_payload_type,
          ssrc |-> rtp.flexfec_ssrc,
          protected_media_ssrc |-> rtp.protected_media_ssrcs[1],
          rtp_state |-> RestoredState(suspended_ssrcs, rtp.flexfec_ssrc, 0)]

\* MaybeCreateFlexfecSender(config, suspended_ssrcs): nullptr, or a sender
\* seeded with the suspended RTP state of the FlexFEC SSRC if there is one.
MaybeCreateFlexfecSender(rtp, suspended_ssrcs) ==
    IF rtp.flexfec_payload_type < 0 THEN NullSender
    ELSE IF rtp.flexfec_ssrc = 0 THEN NullSender
    ELSE IF Len(rtp.protected_media_ssrcs) = 0 THEN NullSender
    ELSE IF Len(rtp.protected_media_ssrcs) > 1 THEN NullSender
    ELSE [created |-> TRUE, payload_type |-> rtp.flexfec_payload_type,
          ssrc |-> rtp.flexfec_ssrc,
          protected_media_ssrc |-> rtp.protected_media_ssrcs[1],
          rtp_state |-> RestoredState(suspended_ssrcs, rtp.flexfec_ssrc, 0)]

\* PayloadStringToCodecType(payload_name)
PayloadStringToCodecType(payload_name) ==
    IF payload_name = "VP8" THEN "kVideoCodecVP8"
    ELSE IF payload_name = "VP9" THEN "kVideoCodecVP9"
    ELSE IF payload_name = "H264" THEN "kVideoCodecH264"
    ELSE "kVideoCodecUnknown"

\* Mutant of PayloadTypeSupportsSkippingFecPackets: VP9 is left out.
PayloadTypeSupportsSkippingOnlyVp8(payload_name) ==
    PayloadStringToCodecType(payload_name) = "kVideoCodecVP8"

PayloadTypeSupportsSkippingFecPackets(payload_name) ==
    LET codecType == PayloadStringToCodecType(payload_name)
    IN  codecType = "kVideoCodecVP8" \/ codecType = "kVideoCodecVP9"

\* IsRedEnabled() and IsUlpfecEnabled() for the payload type they look at.
IsEnabled(payload_type) == payload_type >= 0

\* ulpfec_payload_type after the WebRTC-DisableUlpFecExperiment check.
UlpfecAfterExperiment(ulpfec, disable_ulpfec) ==
    IF disable_ulpfec THEN -1 ELSE ulpfec

\* Mutant of RedAfterFlexfec: RED is kept next to FlexFEC.
RedKeptWithFlexfec(red, flexfec_enabled) == red

\* red_payload_type after "if (flexfec_enabled)".
RedAfterFlexfec(red, flexfec_enabled) ==
    IF flexfec_enabled /\ IsEnabled(red) THEN -1 ELSE red

\* ulpfec_payload_type after "if (flexfec_enabled)".
UlpfecAfterFlexfec(ulpfec, flexfec_enabled) ==
    IF flexfec_enabled /\ IsEnabled(ulpfec) THEN -1 ELSE ulpfec

\* ulpfec_payload_type after the NACK rule.
UlpfecAfterNack(ulpfec, nack_enabled, payload_name) ==
    IF /\ nack_enabled
       /\ IsEnabled(ulpfec)
       /\ ~PayloadTypeSupportsSkippingFecPackets(payload_name)
    THEN -1 ELSE ulpfec

\* Mutant of UlpfecAfterRed: ULPFEC is kept without RED.
UlpfecKeptWithoutRed(ulpfec, red) == ulpfec

\* ulpfec_payload_type after "Verify payload types".
UlpfecAfterRed(ulpfec, red) ==
    IF IsEnabled(ulpfec) /\ ~IsEnabled(red) THEN -1 ELSE ulpfec

\* Mutant of FecEnabled: the configured ULPFEC payload type decides.
FecEnabledAsConfigured(flexfec_enabled, ulpfec) ==
    flexfec_enabled \/ IsEnabled(config_.rtp.ulpfec_payload_type)

\* The first argument of SetProtectionMethod.
FecEnabled(flexfec_enabled, ulpfec) == flexfec_enabled \/ IsEnabled(ulpfec)

\* What ConfigureProtection() decides for the configuration rtp, the FlexFEC
\* sender it finds and the value of the field trial
\* WebRTC-DisableUlpFecExperiment.
ProtectionPolicy(rtp, flexfec_enabled, disable_ulpfec) ==
    LET nack_enabled == rtp.rtp_history_ms > 0
        red == RedAfterFlexfec(rtp.red_payload_type, flexfec_enabled)
        u1 == UlpfecAfterExperiment(rtp.ulpfec_payload_type, disable_ulpfec)
        u2 == UlpfecAfterFlexfec(u1, flexfec_enabled)
        u3 == UlpfecAfterNack(u2, nack_enabled, rtp.payload_name)
        ulpfec == UlpfecAfterRed(u3, red)
    IN  [red_payload_type |-> red, ulpfec_payload_type |-> ulpfec,
         fec_enabled |-> FecEnabled(flexfec_enabled, ulpfec),
         nack_enabled |-> nack_enabled]

kMinSendSidePacketHistorySize == 600

\* An RTP module before ConfigureProtection and SetMaxRtpPacketSize reached it.
NewModule ==
    [max_rtp_packet_size |-> 0, store_packets |-> 0, ulpfec_config |-> <<>>,
     ssrc |-> 0, rtp_state |-> 0, rtx_ssrc |-> 0, rtx_state |-> 0,
     flexfec_sender |-> FALSE]

\* enable_flexfec for the module of media SSRC ssrc: there is a FlexFEC
\* sender and ssrc is one of config.rtp.flexfec.protected_media_ssrcs.
EnableFlexfec(rtp, flexfec_sender, ssrc) ==
    /\ flexfec_sender.created
    /\ \E k \in 1..Len(rtp.protected_media_ssrcs) :
          rtp.protected_media_ssrcs[k] = ssrc

\* CreateRtpRtcpModules: one module per media SSRC, created with the FlexFEC
\* sender in its configuration if enable_flexfec, with nullptr if not.
CreateRtpRtcpModules(rtp, flexfec_sender) ==
    [i \in 1..NumModules |->
        [NewModule EXCEPT
            !.flexfec_sender = EnableFlexfec(rtp, flexfec_sender, rtp.ssrcs[i])]]

\* The module after SetStorePacketsStatus(true, kMinSendSidePacketHistorySize)
\* and SetUlpfecConfig(red_payload_type, ulpfec_payload_type).
ProtectedModule(module, policy) ==
    [module EXCEPT !.store_packets = kMinSendSidePacketHistorySize,
                   !.ulpfec_config = <<policy.red_payload_type,
                                       policy.ulpfec_payload_type>>]

\* The module of index i after ConfigureSsrcs(): SetSSRC and, if the SSRC
\* has a suspended state, SetRtpState; the same with SetRtxSsrc and
\* SetRtxState if RTX SSRCs are configured (as many as media SSRCs).
ConfiguredSsrcs(module, i, rtp, suspended_ssrcs) ==
    LET media == [module EXCEPT
                     !.ssrc = rtp.ssrcs[i],
                     !.rtp_state = RestoredState(suspended_ssrcs, rtp.ssrcs[i],
                                                 module.rtp_state)]
    IN  IF Len(rtp.rtx_ssrcs) = 0 THEN media
        ELSE [media EXCEPT
                 !.rtx_ssrc = rtp.rtx_ssrcs[i],
                 !.rtx_state = RestoredState(suspended_ssrcs, rtp.rtx_ssrcs[i],
                                             module.rtx_state)]

\* fec_controller_ before SetProtectionMethod.
NoProtectionMethod == [set |-> FALSE, fec_enabled |-> FALSE,
                       nack_enabled |-> FALSE]

\* fec_controller_ after SetProtectionMethod(fec_enabled, nack_enabled).
SetProtectionMethod(fec_enabled, nack_enabled) ==
    [set |-> TRUE, fec_enabled |-> fec_enabled, nack_enabled |-> nack_enabled]

(***************************************************************************)
(* State after VideoSendStreamImpl's constructor.                          *)
(***************************************************************************)
\* A CheckEncoderActivityTask slot that holds no object.
FreeTask ==
    [st |-> "free", activity |-> 0, timed_out |-> FALSE, send_stream |-> FALSE,
     notified |-> "none", prev_silent |-> FALSE, pinged |-> FALSE]

\* Mutant of NewTask: the task starts out in the timed-out state.
NewTaskTimedOut ==
    [st |-> "queued", activity |-> 0, timed_out |-> TRUE, send_stream |-> TRUE,
     notified |-> "none", prev_silent |-> FALSE, pinged |-> FALSE]

\* CheckEncoderActivityTask(weak_ptr_), posted to the worker queue.  The
\* fields notified, prev_silent and pinged are history: the task's last
\* notification, whether its previous tick loaded no activity, and whether
\* UpdateEncoderActivity ran since its previous load.
NewTask ==
    [st |-> "queued", activity |-> 0, timed_out |-> FALSE, send_stream |-> TRUE,
     notified |-> "none", prev_silent |-> FALSE, pinged |-> FALSE]

\* Mutant of StopTask: send_stream_ is not reset.
StopTaskKeepsStream(task) == task

\* CheckEncoderActivityTask::Stop(): send_stream_.reset().  The history
\* fields of a stopped task are cleared with it.
StopTask(task) ==
    [task EXCEPT !.send_stream = FALSE, !.notified = "none",
                 !.prev_silent = FALSE, !.pinged = FALSE]

NotRegistered ==
    [registered |-> FALSE, min_bps |-> 0, max_bps |-> U32(0), pad_bps |-> 0]

\* VideoSendStream's thread is in no call.
Idle == [in |-> "idle", behind_stop |-> FALSE]

\* The members after the constructor's initializer list, for the given
\* values of the overhead field trial, of config_->suspend_below_min_bitrate
\* and of config_->rtp.
Members(trials, suspends, rtps, suspended) ==
    /\ send_side_bwe_with_overhead_ \in trials
    /\ config_ \in [max_packet_size : MaxPacketSizes,
                    suspend_below_min_bitrate : suspends, rtp : rtps]
    /\ suspended_ssrcs_ \in suspended
    /\ flexfec_sender_ = MaybeCreateFlexfecSender(config_.rtp, suspended_ssrcs_)
    /\ loss_mask_vector_ = <<>>
    /\ active_modules = [i \in 1..NumModules |-> FALSE]
    /\ check_encoder_activity_task_ = 0
    /\ tasks = [t \in 1..MaxTasks |-> FreeTask]
    /\ allocator = NotRegistered
    /\ encoder_min_bitrate_bps_ = 0
    /\ encoder_max_bitrate_bps_ \in {U32(m) : m \in InitialMaxBitrates}
    /\ max_padding_bitrate_ = 0
    /\ encoder_target_rate_bps_ = U32(0)
    /\ overhead_bytes_per_packet_ = 0
    /\ transport_overhead_bytes_per_packet_ = 0
    /\ encoder_rate = U32(0)
    /\ stats_rate = U32(0)
    /\ crashed = FALSE
    /\ worker_queue_ = <<>>
    /\ pc = 0
    /\ send_stream_ = TRUE
    /\ thread_sync_event_ = FALSE
    /\ caller = Idle
    /\ last = [op |-> "constructor", effects |-> <<>>]

\* The modules as the constructor's body leaves them: created, then
\* ConfigureProtection(), ConfigureSsrcs() and SetMaxRtpPacketSize.
ConstructedModules(config, flexfec_sender, suspended_ssrcs) ==
    LET policy == ProtectionPolicy(config.rtp, flexfec_sender.created, FALSE)
    IN  [i \in 1..NumModules |->
            [ConfiguredSsrcs(
                 ProtectedModule(
                     CreateRtpRtcpModules(config.rtp, flexfec_sender)[i],
                     policy),
                 i, config.rtp, suspended_ssrcs)
                EXCEPT !.max_rtp_packet_size = config.max_packet_size]]

\* What the constructor's body leaves in the modules and the FEC
\* controller.
ConstructorBody ==
    LET policy == ProtectionPolicy(config_.rtp, flexfec_sender_.created, FALSE)
    IN  /\ modules = ConstructedModules(config_, flexfec_sender_,
                                        suspended_ssrcs_)
        /\ fec_controller_ = SetProtectionMethod(policy.fec_enabled,
                                                 policy.nack_enabled)

\* The state the constructor leaves, for the given values of the overhead
\* field trial and of config_->suspend_below_min_bitrate.
InitWith(trials, suspends) ==
    /\ Members(trials, suspends, {DefaultRtp}, {NoSuspended})
    /\ ConstructorBody
    /\ feedback_packet_seq_num_set_ = {}

Init == InitWith(BOOLEAN, BOOLEAN)

\* The state in which the constructor's body calls ConfigureProtection(),
\* for every configuration of the protection schemes.
InitProtection ==
    /\ Members({FALSE}, {FALSE}, RtpConfigs, {NoSuspended})
    /\ modules = CreateRtpRtcpModules(config_.rtp, flexfec_sender_)
    /\ fec_controller_ = NoProtectionMethod
    /\ feedback_packet_seq_num_set_ = {}

\* A stream constructed with or without RTX and FlexFEC, from every map of
\* suspended RTP states.
InitSsrcs ==
    /\ Members({FALSE}, {FALSE}, SsrcRtpConfigs, SuspendedMaps)
    /\ ConstructorBody
    /\ feedback_packet_seq_num_set_ = {}

\* A constructed stream whose feedback window is empty or holds the
\* sequence numbers of a run of packets that got no feedback yet.
InitFeedback ==
    /\ Members({FALSE}, {FALSE}, {DefaultRtp}, {NoSuspended})
    /\ ConstructorBody
    /\ feedback_packet_seq_num_set_ \in SentWindows

(***************************************************************************)
(* Collaborators.                                                          *)
(***************************************************************************)
\* payload_router_.IsActive() when its module flags are flags.
RouterIsActive(flags) == \E i \in 1..NumModules : flags[i]

\* payload_router_.IsActive()
IsActive == RouterIsActive(active_modules)

\* payload_router_.SetActive(active)
SetActive(active) == [i \in 1..NumModules |-> active]

\* A task of the worker queue is in the middle of Run(): nothing else runs
\* on the queue until it returns.
QueueIdle == \A t \in 1..MaxTasks : tasks[t].st # "running"

\* The calls a handler makes on its collaborators, as recorded in last.effects.
Call(name, args) == [call |-> name, args |-> args]

Has(effects, name) == \E i \in 1..Len(effects) : effects[i].call = name

Count(effects, name) ==
    Cardinality({i \in 1..Len(effects) : effects[i].call = name})

\* The arguments of the first call of that name.
ArgsOf(effects, name) ==
    effects[CHOOSE i \in 1..Len(effects) : effects[i].call = name].args

\* bitrate_allocator_->AddObserver(this, min, max, pad, ...)
AddObserver(min_bps, max_bps, pad_bps) ==
    [registered |-> TRUE, min_bps |-> min_bps, max_bps |-> max_bps,
     pad_bps |-> pad_bps]

AddObserverCall(min_bps, max_bps, pad_bps) ==
    Call("AddObserver", <<min_bps, max_bps, pad_bps>>)

kEncoderTimeOutMs == 2000

FreeTasks == {t \in 1..MaxTasks : tasks[t].st = "free"}

(***************************************************************************)
(* Start, Stop, UpdateActiveSimulcastLayers.                               *)
(***************************************************************************)
\* StartupVideoSendStream(), run by operation op after it set the payload
\* router to new_active.  The new task takes the lowest free slot.
StartupVideoSendStream(op, new_active) ==
    /\ FreeTasks # {}
    /\ LET id == CHOOSE t \in FreeTasks : \A u \in FreeTasks : t <= u
       IN  /\ allocator' = AddObserver(encoder_min_bitrate_bps_,
                                       encoder_max_bitrate_bps_,
                                       max_padding_bitrate_)
           /\ tasks' = [tasks EXCEPT ![id] = NewTask]
           /\ check_encoder_activity_task_' = id
           /\ last' = [op EXCEPT !.effects =
                          <<AddObserverCall(encoder_min_bitrate_bps_,
                                            encoder_max_bitrate_bps_,
                                            max_padding_bitrate_),
                            Call("PostDelayedTask", <<id, kEncoderTimeOutMs>>),
                            Call("SendKeyFrame", <<>>)>>]
    /\ active_modules' = new_active
    /\ UNCHANGED <<constVars, protectionVars, feedbackVars,
                   boundVars, encoder_target_rate_bps_,
                   overheadVars, sinkVars, crashed>>

\* Mutant of StoppedRate: the encoder keeps the rate it had.
StoppedRateKept == encoder_rate

\* The rate StopVideoSendStream() gives the encoder and the statistics.
StoppedRate == U32(0)

\* Mutant of ReleasedTask: the pointer to the stopped task is kept.
ReleasedTaskKept == check_encoder_activity_task_

\* check_encoder_activity_task_ = nullptr
ReleasedTask == 0

\* StopVideoSendStream(), run by operation op after it set the payload router
\* to new_active.  check_encoder_activity_task_->Stop() on a null pointer
\* ends the process.
StopVideoSendStream(op, new_active) ==
    /\ active_modules' = new_active
    /\ allocator' = NotRegistered
    /\ IF check_encoder_activity_task_ = 0
       THEN /\ crashed' = TRUE
            /\ last' = [op EXCEPT !.effects = <<Call("RemoveObserver", <<>>)>>]
            /\ UNCHANGED <<watchdogVars, sinkVars>>
       ELSE /\ tasks' = [tasks EXCEPT ![check_encoder_activity_task_] =
                                          StopTask(@)]
            /\ check_encoder_activity_task_' = ReleasedTask
            /\ encoder_rate' = StoppedRate
            /\ stats_rate' = StoppedRate
            /\ last' = [op EXCEPT !.effects =
                           <<Call("RemoveObserver", <<>>),
                             Call("TaskStop", <<check_encoder_activity_task_>>),
                             Call("EncoderOnBitrateUpdated", <<StoppedRate>>),
                             Call("OnSetEncoderTargetRate", <<StoppedRate>>)>>]
            /\ UNCHANGED crashed
    /\ UNCHANGED <<constVars, protectionVars, feedbackVars,
                   boundVars, encoder_target_rate_bps_, overheadVars>>

\* A handler that returns without touching the stream.
NoOp(op) ==
    /\ last' = op
    /\ UNCHANGED <<constVars, protectionVars, feedbackVars,
                   active_modules, watchdogVars, allocator,
                   boundVars, encoder_target_rate_bps_, overheadVars, sinkVars,
                   crashed>>

\* Mutant of Start: the early return on an active router is missing.
StartWithoutCheck ==
    /\ ~crashed /\ QueueIdle
    /\ StartupVideoSendStream([op |-> "Start", effects |-> <<>>],
                              SetActive(TRUE))

Start ==
    /\ ~crashed /\ QueueIdle
    /\ LET op == [op |-> "Start", effects |-> <<>>]
       IN  IF IsActive THEN NoOp(op)
           ELSE StartupVideoSendStream(op, SetActive(TRUE))

\* Mutant of Stop: the early return on an inactive router is missing.
StopWithoutCheck ==
    /\ ~crashed /\ QueueIdle
    /\ StopVideoSendStream([op |-> "Stop", effects |-> <<>>], SetActive(FALSE))

Stop ==
    /\ ~crashed /\ QueueIdle
    /\ LET op == [op |-> "Stop", effects |-> <<>>]
       IN  IF ~IsActive THEN NoOp(op)
           ELSE StopVideoSendStream(op, SetActive(FALSE))

\* Mutant of UpdateActiveSimulcastLayers: the previous state of the router
\* is not looked at, every call with an active layer runs the startup.
UpdateActiveSimulcastLayersRestart(active_layers) ==
    /\ ~crashed /\ QueueIdle
    /\ LET op == [op |-> "UpdateActiveSimulcastLayers",
                  active_layers |-> active_layers, effects |-> <<>>]
       IN  IF RouterIsActive(active_layers)
           THEN StartupVideoSendStream(op, active_layers)
           ELSE IF IsActive THEN StopVideoSendStream(op, active_layers)
           ELSE NoOp(op)

UpdateActiveSimulcastLayers(active_layers) ==
    /\ ~crashed /\ QueueIdle
    /\ LET op == [op |-> "UpdateActiveSimulcastLayers",
                  active_layers |-> active_layers, effects |-> <<>>]
           previously_active == IsActive
           now_active == RouterIsActive(active_layers)
       IN  IF ~now_active /\ previously_active
           THEN StopVideoSendStream(op, active_layers)
           ELSE IF now_active /\ ~previously_active
           THEN StartupVideoSendStream(op, active_layers)
           ELSE /\ active_modules' = active_layers
                /\ last' = op
                /\ UNCHANGED <<constVars, protectionVars, feedbackVars,
                               watchdogVars, allocator, boundVars,
                               encoder_target_rate_bps_, overheadVars,
                               sinkVars, crashed>>

(***************************************************************************)
(* The encoder-activity watchdog.                                          *)
(***************************************************************************)
\* Mutant of PingedTask: a task that is in the queue is pinged, whether
\* or not the stream still holds it.
PingedTaskInQueue ==
    IF \E t \in 1..MaxTasks : tasks[t].st # "free"
    THEN CHOOSE t \in 1..MaxTasks : tasks[t].st # "free"
    ELSE 0

\* The task OnEncodedImage pings: check_encoder_activity_task_, read under
\* encoder_activity_crit_sect_; 0 is the null pointer.
PingedTask == check_encoder_activity_task_

\* VideoSendStreamImpl::OnEncodedImage on an encoder thread: under
\* encoder_activity_crit_sect_, UpdateEncoderActivity() on the current task.
OnEncodedImage ==
    /\ ~crashed
    /\ IF PingedTask # 0
       THEN /\ tasks' = [tasks EXCEPT
                            ![PingedTask].activity = 1,
                            ![PingedTask].pinged = TRUE]
            /\ last' = [op |-> "OnEncodedImage",
                        effects |-> <<Call("UpdateEncoderActivity",
                                           <<PingedTask>>)>>]
       ELSE /\ tasks' = tasks
            /\ last' = [op |-> "OnEncodedImage", effects |-> <<>>]
    /\ UNCHANGED <<constVars, protectionVars, feedbackVars,
                   active_modules, check_encoder_activity_task_,
                   allocator, boundVars, encoder_target_rate_bps_,
                   overheadVars, sinkVars, crashed>>

\* Mutant of SignalEncoderTimedOut: the target rate is not looked at.
SignalEncoderTimedOutAlways ==
    [allocator |-> NotRegistered,
     effects |-> <<Call("SignalEncoderTimedOut", <<>>),
                   Call("RemoveObserver", <<>>)>>]

\* What SignalEncoderTimedOut() does: it leaves the allocator when the
\* encoder is supposed to produce something.
SignalEncoderTimedOut ==
    IF encoder_target_rate_bps_ # U32(0)
    THEN [allocator |-> NotRegistered,
          effects |-> <<Call("SignalEncoderTimedOut", <<>>),
                        Call("RemoveObserver", <<>>)>>]
    ELSE [allocator |-> allocator,
          effects |-> <<Call("SignalEncoderTimedOut", <<>>)>>]

\* What SignalEncoderActive() does.
SignalEncoderActive ==
    [allocator |-> AddObserver(encoder_min_bitrate_bps_,
                               encoder_max_bitrate_bps_, max_padding_bitrate_),
     effects |-> <<Call("SignalEncoderActive", <<>>),
                   AddObserverCall(encoder_min_bitrate_bps_,
                                   encoder_max_bitrate_bps_,
                                   max_padding_bitrate_)>>]

\* Neither notification.
NoSignal == [allocator |-> allocator, effects |-> <<>>]

\* Mutant of RunTimedOut: timed_out_ is never set.
RunTimedOutNeverSet(timed_out, activity) ==
    IF activity = 0 THEN timed_out
    ELSE IF timed_out THEN FALSE
    ELSE timed_out

\* timed_out_ after Run() loaded activity from activity_.
RunTimedOut(timed_out, activity) ==
    IF activity = 0 THEN TRUE
    ELSE IF timed_out THEN FALSE
    ELSE timed_out

\* The notification Run() makes after it loaded activity from activity_.
RunSignal(timed_out, activity) ==
    IF activity = 0
    THEN (IF ~timed_out THEN SignalEncoderTimedOut ELSE NoSignal)
    ELSE (IF timed_out THEN SignalEncoderActive ELSE NoSignal)

\* CheckEncoderActivityTask::Run() up to and including the load of
\* activity_ and the notification it decides on.  A task that was stopped
\* returns true and is deleted by the queue.
RunBegin(t) ==
    /\ ~crashed /\ QueueIdle
    /\ tasks[t].st = "queued"
    /\ IF ~tasks[t].send_stream
       THEN /\ tasks' = [tasks EXCEPT ![t] = FreeTask]
            /\ allocator' = allocator
            /\ last' = [op |-> "Run", task |-> t, alive |-> FALSE,
                        loaded |-> 0, effects |-> <<>>]
       ELSE LET loaded == tasks[t].activity
                signal == RunSignal(tasks[t].timed_out, loaded)
            IN  /\ tasks' = [tasks EXCEPT ![t] =
                        [@ EXCEPT
                           !.st = "running",
                           !.timed_out = RunTimedOut(tasks[t].timed_out, loaded),
                           !.notified =
                               IF Has(signal.effects, "SignalEncoderTimedOut")
                               THEN "TimedOut"
                               ELSE IF Has(signal.effects, "SignalEncoderActive")
                               THEN "Active"
                               ELSE @,
                           !.prev_silent = (loaded = 0),
                           !.pinged = FALSE]]
                /\ allocator' = signal.allocator
                /\ last' = [op |-> "Run", task |-> t, alive |-> TRUE,
                            loaded |-> loaded, effects |-> signal.effects]
    /\ UNCHANGED <<constVars, protectionVars, feedbackVars,
                   active_modules, check_encoder_activity_task_,
                   boundVars, encoder_target_rate_bps_, overheadVars, sinkVars,
                   crashed>>

\* The rest of Run(): activity_ is stored back as 0 and the task posts itself
\* again, kEncoderTimeOutMs later.
RunEnd(t) ==
    /\ ~crashed
    /\ tasks[t].st = "running"
    /\ tasks' = [tasks EXCEPT ![t].activity = 0, ![t].st = "queued"]
    /\ last' = [op |-> "RunEnd", task |-> t,
                effects |-> <<Call("PostDelayedTask", <<t, kEncoderTimeOutMs>>)>>]
    /\ UNCHANGED <<constVars, protectionVars, feedbackVars,
                   active_modules, check_encoder_activity_task_,
                   allocator, boundVars, encoder_target_rate_bps_,
                   overheadVars, sinkVars, crashed>>

(***************************************************************************)
(* Bitrate bounds and the bitrate feedback loop.                           *)
(***************************************************************************)
RECURSIVE SumAllMax(_, _)
\* Mutant of SumActiveMax: inactive streams count as well.
SumAllMax(streams, n) ==
    IF n = 0 THEN U32(0)
    ELSE Add32(SumAllMax(streams, n - 1), U32(streams[n].max_bitrate_bps))

RECURSIVE SumActiveMax(_, _)
\* encoder_max_bitrate_bps_ after the loop over streams[1..n], from 0.
SumActiveMax(streams, n) ==
    IF n = 0 THEN U32(0)
    ELSE Add32(SumActiveMax(streams, n - 1),
               U32(IF streams[n].active THEN streams[n].max_bitrate_bps ELSE 0))

\* Mutant of StartedAlready: the allocator is updated without looking at
\* the payload router.
StartedAssumed == TRUE

\* payload_router_.IsActive() in OnEncoderConfigurationChanged: "the send
\* stream is started already".
StartedAlready == IsActive

\* OnEncoderConfigurationChanged on the worker queue; trial_min_bps is what
\* the forced-fallback field trial says when the call reads it.  The bitrate
\* priority, the statistics of disabled layers and SetEncodingData only reach
\* collaborators and are left out.
OnEncoderConfigurationChanged(streams, min_transmit_bitrate_bps, trial_min_bps) ==
    /\ ~crashed /\ QueueIdle
    /\ LET new_min == IntMax(streams[1].min_bitrate_bps,
                             GetEncoderMinBitrateBps(trial_min_bps))
           new_max == Max32(U32(new_min), SumActiveMax(streams, Len(streams)))
           new_pad == CalculateMaxPadBitrateBps(streams, min_transmit_bitrate_bps,
                                                config_.suspend_below_min_bitrate)
           op == [op |-> "OnEncoderConfigurationChanged", streams |-> streams,
                  min_transmit_bitrate_bps |-> min_transmit_bitrate_bps,
                  trial_min_bps |-> trial_min_bps, effects |-> <<>>]
       IN  /\ encoder_min_bitrate_bps_' = new_min
           /\ encoder_max_bitrate_bps_' = new_max
           /\ max_padding_bitrate_' = new_pad
           /\ IF StartedAlready
              THEN /\ allocator' = AddObserver(new_min, new_max, new_pad)
                   /\ last' = [op EXCEPT !.effects =
                                 <<AddObserverCall(new_min, new_max, new_pad)>>]
              ELSE /\ allocator' = allocator
                   /\ last' = op
    /\ UNCHANGED <<constVars, protectionVars, feedbackVars,
                   active_modules, watchdogVars,
                   encoder_target_rate_bps_, overheadVars, sinkVars, crashed>>

\* Mutant of Clear: the loss mask keeps its entries.
ClearForgotten(loss_mask) == loss_mask

\* loss_mask_vector_.clear()
Clear(loss_mask) == <<>>

\* Mutant of ClampTarget: the target is pushed as the FEC controller gave it.
ClampTargetMissing(max_bps, target_bps) == target_bps

\* std::min(encoder_max_bitrate_bps_, encoder_target_rate_bps_)
ClampTarget(max_bps, target_bps) == Min32(max_bps, target_bps)

\* Mutant of ProtectionBitrate: the encoder overhead is not taken off.
ProtectionBitrateNoOverhead(bitrate_bps, target_bps, overhead_rate_bps) ==
    Sub32(bitrate_bps, target_bps)

\* Mutant of ProtectionBitrate: the operands of the subtraction are swapped.
ProtectionBitrateSwapped(bitrate_bps, target_bps, overhead_rate_bps) ==
    Sub32(Add32(target_bps, overhead_rate_bps), bitrate_bps)

\* bitrate_bps - (encoder_target_rate_bps_ + encoder_overhead_rate_bps)
ProtectionBitrate(bitrate_bps, target_bps, overhead_rate_bps) ==
    Sub32(bitrate_bps, Add32(target_bps, overhead_rate_bps))

\* payload_bitrate_bps: bitrate_bps less the overhead of packet_rate packets
\* when overhead accounting is on.
PayloadBitrate(bitrate_bps, packet_rate) ==
    IF send_side_bwe_with_overhead_
    THEN Sub32(bitrate_bps,
               CalculateOverheadRateBps(packet_rate,
                   overhead_bytes_per_packet_
                   + transport_overhead_bytes_per_packet_,
                   bitrate_bps))
    ELSE bitrate_bps

\* encoder_overhead_rate_bps for the target the FEC controller returned.
EncoderOverheadRate(bitrate_bps, target_bps, packet_rate) ==
    IF send_side_bwe_with_overhead_
    THEN CalculateOverheadRateBps(packet_rate,
             overhead_bytes_per_packet_ + transport_overhead_bytes_per_packet_,
             Sub32(bitrate_bps, target_bps))
    ELSE U32(0)

\* OnBitrateUpdated(bitrate_bps, ...), called by the bandwidth allocator on
\* an observer it holds.  fec_target is what UpdateFecRates returns for the
\* payload bitrate and the loss mask, which is then cleared; rate1
\* and rate2 are what the two CalculatePacketRate calls return.  A division
\* by zero that traps ends the process after encoder_target_rate_bps_ was
\* assigned.
OnBitrateUpdated(bitrate_bps, fec_target) ==
    /\ ~crashed /\ QueueIdle
    /\ allocator.registered
    /\ \E rate1 \in (IF send_side_bwe_with_overhead_
                     THEN PacketRates(bitrate_bps,
                              config_.max_packet_size
                              + transport_overhead_bytes_per_packet_)
                     ELSE {0}),
          rate2 \in (IF send_side_bwe_with_overhead_
                     THEN PacketRates(fec_target,
                              config_.max_packet_size
                              + transport_overhead_bytes_per_packet_
                              - overhead_bytes_per_packet_)
                     ELSE {0}) :
        /\ rate1 # DivByZeroTrap
        /\ LET payload_bitrate_bps == PayloadBitrate(bitrate_bps, rate1)
               encoder_overhead_rate_bps ==
                   EncoderOverheadRate(bitrate_bps, fec_target, rate2)
               protection_bitrate ==
                   ProtectionBitrate(bitrate_bps, fec_target,
                                     encoder_overhead_rate_bps)
               clamped == ClampTarget(encoder_max_bitrate_bps_, fec_target)
           IN  IF rate2 = DivByZeroTrap
               THEN /\ crashed' = TRUE
                    /\ encoder_target_rate_bps_' = fec_target
                    /\ last' = [op |-> "OnBitrateUpdated", returned |-> FALSE,
                                bitrate_bps |-> bitrate_bps,
                                payload_bitrate_bps |-> payload_bitrate_bps,
                                fec_target |-> fec_target,
                                effects |-> <<Call("UpdateFecRates",
                                                   <<payload_bitrate_bps,
                                                     loss_mask_vector_>>)>>]
                    /\ UNCHANGED sinkVars
               ELSE /\ crashed' = FALSE
                    /\ encoder_target_rate_bps_' = clamped
                    /\ encoder_rate' = clamped
                    /\ stats_rate' = clamped
                    /\ last' = [op |-> "OnBitrateUpdated", returned |-> TRUE,
                                bitrate_bps |-> bitrate_bps,
                                payload_bitrate_bps |-> payload_bitrate_bps,
                                fec_target |-> fec_target,
                                encoder_overhead_rate_bps |->
                                    encoder_overhead_rate_bps,
                                ret |-> protection_bitrate,
                                effects |->
                                    <<Call("UpdateFecRates",
                                           <<payload_bitrate_bps,
                                             loss_mask_vector_>>),
                                      Call("EncoderOnBitrateUpdated",
                                           <<clamped>>),
                                      Call("OnSetEncoderTargetRate",
                                           <<clamped>>)>>]
    /\ loss_mask_vector_' = Clear(loss_mask_vector_)
    /\ UNCHANGED <<constVars, protectionVars, feedback_packet_seq_num_set_,
                   active_modules, watchdogVars, allocator, boundVars,
                   overheadVars>>

\* OnOverheadChanged, called by an RTP module under
\* overhead_bytes_per_packet_crit_.
OnOverheadChanged(overhead_bytes_per_packet) ==
    /\ ~crashed
    /\ overhead_bytes_per_packet_' = overhead_bytes_per_packet
    /\ last' = [op |-> "OnOverheadChanged",
                overhead_bytes_per_packet |-> overhead_bytes_per_packet,
                effects |-> <<>>]
    /\ UNCHANGED <<constVars, protectionVars, feedbackVars,
                   active_modules, watchdogVars, allocator,
                   boundVars, encoder_target_rate_bps_,
                   transport_overhead_bytes_per_packet_, modules, sinkVars,
                   crashed>>

kPathMTU == 1500

\* Mutant of ExceedsPathMTU: an overhead of exactly the path MTU is accepted.
ExceedsPathMTUStrictly(transport_overhead_bytes_per_packet) ==
    transport_overhead_bytes_per_packet > kPathMTU

\* transport_overhead_bytes_per_packet >= static_cast<int>(kPathMTU)
ExceedsPathMTU(transport_overhead_bytes_per_packet) ==
    transport_overhead_bytes_per_packet >= kPathMTU

SetTransportOverhead(transport_overhead_bytes_per_packet) ==
    /\ ~crashed /\ QueueIdle
    /\ LET op == [op |-> "SetTransportOverhead",
                  transport_overhead_bytes_per_packet |->
                      transport_overhead_bytes_per_packet,
                  effects |-> <<>>]
       IN  IF ExceedsPathMTU(transport_overhead_bytes_per_packet)
           THEN NoOp(op)
           ELSE LET rtp_packet_size ==
                        IntMin(config_.max_packet_size,
                               kPathMTU - transport_overhead_bytes_per_packet)
                IN  /\ transport_overhead_bytes_per_packet_' =
                           transport_overhead_bytes_per_packet
                    /\ modules' = [i \in 1..NumModules |->
                                      [modules[i] EXCEPT
                                          !.max_rtp_packet_size = rtp_packet_size]]
                    /\ last' = [op EXCEPT !.effects =
                                  <<Call("SetMaxRtpPacketSize",
                                         <<rtp_packet_size>>)>>]
                    /\ UNCHANGED <<constVars, protectionVars, feedbackVars,
                                   active_modules, watchdogVars,
                                   allocator, boundVars,
                                   encoder_target_rate_bps_,
                                   overhead_bytes_per_packet_, sinkVars,
                                   crashed>>

(***************************************************************************)
(* ConfigureProtection.                                                    *)
(***************************************************************************)
\* The calls SetStorePacketsStatus and SetUlpfecConfig on modules 1..n.
RECURSIVE ModuleProtectionCalls(_, _)
ModuleProtectionCalls(n, policy) ==
    IF n = 0 THEN <<>>
    ELSE ModuleProtectionCalls(n - 1, policy)
         \o <<Call("SetStorePacketsStatus",
                   <<n, kMinSendSidePacketHistorySize>>),
              Call("SetUlpfecConfig",
                   <<n, policy.red_payload_type, policy.ulpfec_payload_type>>)>>

\* ConfigureProtection(), which the constructor's body calls once on the
\* worker queue; disable_ulpfec is what the field trial
\* WebRTC-DisableUlpFecExperiment says.
ConfigureProtection(disable_ulpfec) ==
    /\ ~crashed /\ QueueIdle
    /\ ~fec_controller_.set
    /\ LET policy == ProtectionPolicy(config_.rtp, flexfec_sender_.created,
                                      disable_ulpfec)
       IN  /\ modules' = [i \in 1..NumModules |->
                             ProtectedModule(modules[i], policy)]
           /\ fec_controller_' = SetProtectionMethod(policy.fec_enabled,
                                                     policy.nack_enabled)
           /\ last' = [op |-> "ConfigureProtection",
                       disable_ulpfec |-> disable_ulpfec,
                       effects |->
                           ModuleProtectionCalls(NumModules, policy)
                           \o <<Call("SetProtectionMethod",
                                     <<policy.fec_enabled,
                                       policy.nack_enabled>>)>>]
    /\ UNCHANGED <<constVars, flexfec_sender_, feedbackVars, active_modules,
                   watchdogVars, allocator, boundVars,
                   encoder_target_rate_bps_, overhead_bytes_per_packet_,
                   transport_overhead_bytes_per_packet_, sinkVars, crashed>>

(***************************************************************************)
(* RTP states: ConfigureSsrcs, GetRtpStates and the next stream.           *)
(***************************************************************************)
\* Module i sends a media packet, or an RTX packet if it has an RTX SSRC,
\* which advances the RTP state of that sender.
ModuleSends(i, rtx) ==
    /\ ~crashed
    /\ IF rtx
       THEN /\ modules[i].rtx_ssrc # 0
            /\ modules[i].rtx_state < MaxRtpState
            /\ modules' = [modules EXCEPT ![i].rtx_state = @ + 1]
       ELSE /\ modules[i].rtp_state < MaxRtpState
            /\ modules' = [modules EXCEPT ![i].rtp_state = @ + 1]
    /\ last' = [op |-> "ModuleSends", effects |-> <<>>]
    /\ UNCHANGED <<constVars, protectionVars, feedbackVars, active_modules,
                   watchdogVars, allocator, boundVars,
                   encoder_target_rate_bps_, overhead_bytes_per_packet_,
                   transport_overhead_bytes_per_packet_, sinkVars, crashed>>

\* The FlexFEC sender sends a packet.
FlexfecSends ==
    /\ ~crashed
    /\ flexfec_sender_.created
    /\ flexfec_sender_.rtp_state < MaxRtpState
    /\ flexfec_sender_' = [flexfec_sender_ EXCEPT !.rtp_state = @ + 1]
    /\ last' = [op |-> "FlexfecSends", effects |-> <<>>]
    /\ UNCHANGED <<constVars, fec_controller_, feedbackVars, active_modules,
                   watchdogVars, allocator, boundVars,
                   encoder_target_rate_bps_, overheadVars, sinkVars, crashed>>

\* The map GetRtpStates() builds: the media SSRCs first, then the RTX
\* SSRCs, then the FlexFEC SSRC, a later assignment to an SSRC replacing
\* an earlier one.
RtpStates(rtp, rtp_rtcp_modules, flexfec_sender) ==
    LET media == {rtp.ssrcs[i] : i \in 1..Len(rtp.ssrcs)}
        rtx == {rtp.rtx_ssrcs[i] : i \in 1..Len(rtp.rtx_ssrcs)}
        flexfec == IF flexfec_sender.created THEN {rtp.flexfec_ssrc} ELSE {}
    IN  [ssrc \in media \cup rtx \cup flexfec |->
            IF ssrc \in flexfec THEN flexfec_sender.rtp_state
            ELSE IF ssrc \in rtx
            THEN LET i == CHOOSE j \in 1..Len(rtp.rtx_ssrcs) :
                             /\ rtp.rtx_ssrcs[j] = ssrc
                             /\ \A k \in (j + 1)..Len(rtp.rtx_ssrcs) :
                                   rtp.rtx_ssrcs[k] # ssrc
                 IN  rtp_rtcp_modules[i].rtx_state
            ELSE LET i == CHOOSE j \in 1..Len(rtp.ssrcs) :
                             /\ rtp.ssrcs[j] = ssrc
                             /\ \A k \in (j + 1)..Len(rtp.ssrcs) :
                                   rtp.ssrcs[k] # ssrc
                 IN  rtp_rtcp_modules[i].rtp_state]

\* GetRtpStates() on the worker queue.
GetRtpStates ==
    /\ ~crashed /\ QueueIdle
    /\ last' = [op |-> "GetRtpStates",
                ret |-> RtpStates(config_.rtp, modules, flexfec_sender_),
                effects |-> <<>>]
    /\ UNCHANGED <<constVars, protectionVars, feedbackVars, active_modules,
                   watchdogVars, allocator, boundVars,
                   encoder_target_rate_bps_, overheadVars, sinkVars, crashed>>

\* The stream that exported its RTP states is destroyed and a stream with
\* the same configuration is constructed with the exported map as
\* suspended_ssrcs.  The stream was never started, so the members the
\* constructor does not derive from the map have their constructed values.
VideoSendStreamImpl ==
    /\ ~crashed /\ QueueIdle
    /\ last.op = "GetRtpStates"
    /\ ~IsActive
    /\ suspended_ssrcs_' = last.ret
    /\ flexfec_sender_' = MaybeCreateFlexfecSender(config_.rtp, last.ret)
    /\ modules' = ConstructedModules(config_, flexfec_sender_', last.ret)
    /\ last' = [op |-> "constructor", effects |-> <<>>]
    /\ UNCHANGED <<send_side_bwe_with_overhead_, config_, fec_controller_,
                   feedbackVars, active_modules, watchdogVars, allocator,
                   boundVars, encoder_target_rate_bps_,
                   overhead_bytes_per_packet_,
                   transport_overhead_bytes_per_packet_, sinkVars, crashed>>

(***************************************************************************)
(* The packet-feedback tracker.                                            *)
(***************************************************************************)
\* ssrc is one of config_->rtp.ssrcs.
IsMediaSsrc(ssrc) ==
    \E i \in 1..Len(config_.rtp.ssrcs) : config_.rtp.ssrcs[i] = ssrc

\* Mutant of InsertSeqNum: the set is never reset.
InsertSeqNumUnbounded(seq_nums, seq_num) == seq_nums \cup {seq_num}

\* feedback_packet_seq_num_set_ after insert(seq_num) and the reset of a set
\* that exceeds kSendSideSeqNumSetMaxSize.
InsertSeqNum(seq_nums, seq_num) ==
    LET inserted == seq_nums \cup {seq_num}
    IN  IF Cardinality(inserted) > kSendSideSeqNumSetMaxSize THEN {}
        ELSE inserted

\* OnPacketAdded(ssrc, seq_num) on the worker queue: the call itself when
\* the transport makes it there, else the task it posts.
OnPacketAdded(ssrc, seq_num) ==
    /\ ~crashed /\ QueueIdle
    /\ feedback_packet_seq_num_set_' =
           IF IsMediaSsrc(ssrc)
           THEN InsertSeqNum(feedback_packet_seq_num_set_, seq_num)
           ELSE feedback_packet_seq_num_set_
    /\ last' = [op |-> "OnPacketAdded", ssrc |-> ssrc, seq_num |-> seq_num,
                effects |-> <<>>]
    /\ UNCHANGED <<constVars, protectionVars, loss_mask_vector_,
                   active_modules, watchdogVars, allocator, boundVars,
                   encoder_target_rate_bps_, overheadVars, sinkVars, crashed>>

\* Mutant of FoundInSet: every report counts as found.
FoundAlways(seq_nums, sequence_number) == TRUE

\* The value of `it` in "auto it = find(sequence_number) != end()": the
\* result of the comparison, a bool.
FoundInSet(seq_nums, sequence_number) == sequence_number \in seq_nums

\* The key erase(it) removes: `it` is a bool, so erase(const key_type&) is
\* called with the bool converted to uint16_t, which is 1 inside the if.
ErasedKey(it) == IF it THEN 1 ELSE 0

RECURSIVE FeedbackLoop(_, _, _)
\* The tracker after the loop of OnPacketFeedbackVector handled the first n
\* reports of packet_feedback_vector, starting from tracker.
FeedbackLoop(tracker, packet_feedback_vector, n) ==
    IF n = 0 THEN tracker
    ELSE LET before == FeedbackLoop(tracker, packet_feedback_vector, n - 1)
             packet == packet_feedback_vector[n]
             it == FoundInSet(before.seq_nums, packet.sequence_number)
         IN  IF it
             THEN [seq_nums |-> before.seq_nums \ {ErasedKey(it)},
                   loss_mask |-> Append(before.loss_mask, packet.lost)]
             ELSE before

\* OnPacketFeedbackVector(packet_feedback_vector) on the worker queue: the
\* call itself when the transport makes it there, else the task it posts.
OnPacketFeedbackVector(packet_feedback_vector) ==
    /\ ~crashed /\ QueueIdle
    /\ Len(loss_mask_vector_) + Len(packet_feedback_vector) <= MaxLossMask
    /\ LET after == FeedbackLoop([seq_nums |-> feedback_packet_seq_num_set_,
                                  loss_mask |-> loss_mask_vector_],
                                 packet_feedback_vector,
                                 Len(packet_feedback_vector))
       IN  /\ feedback_packet_seq_num_set_' = after.seq_nums
           /\ loss_mask_vector_' = after.loss_mask
    /\ last' = [op |-> "OnPacketFeedbackVector",
                packet_feedback_vector |-> packet_feedback_vector,
                effects |-> <<>>]
    /\ UNCHANGED <<constVars, protectionVars, active_modules, watchdogVars,
                   allocator, boundVars, encoder_target_rate_bps_,
                   overheadVars, sinkVars, crashed>>

(***************************************************************************)
(* The owning VideoSendStream, the worker queue and teardown.              *)
(***************************************************************************)
\* The members of the stream and the state of its collaborators.
implVars == <<constVars, protectionVars, feedbackVars, active_modules,
              watchdogVars, allocator, boundVars, encoder_target_rate_bps_,
              overheadVars, sinkVars, crashed>>

\* Mutant of PostTask: the closure is put in front of the queue.
PostTaskInFront(queue, closure) == <<closure>> \o queue

\* worker_queue_->PostTask(closure): the queue runs closures in the order
\* they were posted.
PostTask(queue, closure) == Append(queue, closure)

Closure(fn, arg) == [fn |-> fn, arg |-> arg]

\* A thread can call into a stream that exists; the queue has room.
CanPost == send_stream_ /\ Len(worker_queue_) < MaxPosted

\* VideoSendStream::Start(): posts send_stream->Start() followed by
\* thread_sync_event_.Set(), and waits for the event.  behind_stop is
\* history: a Stop closure was in the queue when the call was made.
VideoSendStreamStart ==
    /\ caller = Idle /\ CanPost
    /\ worker_queue_' = PostTask(worker_queue_, Closure("Start", <<>>))
    /\ caller' = [in |-> "Start",
                  behind_stop |-> \E k \in 1..Len(worker_queue_) :
                                     worker_queue_[k].fn = "Stop"]
    /\ last' = [op |-> "VideoSendStream::Start", effects |-> <<>>]
    /\ UNCHANGED <<implVars, pc, send_stream_, thread_sync_event_>>

\* VideoSendStream::Stop(): posts send_stream->Stop() and returns.
VideoSendStreamStop ==
    /\ caller = Idle /\ CanPost
    /\ worker_queue_' = PostTask(worker_queue_, Closure("Stop", <<>>))
    /\ last' = [op |-> "VideoSendStream::Stop", effects |-> <<>>]
    /\ UNCHANGED <<implVars, pc, send_stream_, thread_sync_event_, caller>>

\* VideoSendStream::StopPermanentlyAndGetRtpStates(): stops the encoder,
\* posts the closure that stops, exports and destroys the stream, and waits.
StopPermanentlyAndGetRtpStates ==
    /\ caller = Idle /\ CanPost
    /\ worker_queue_' = PostTask(worker_queue_,
                                 Closure("StopPermanently", <<>>))
    /\ caller' = [in |-> "StopPermanentlyAndGetRtpStates",
                  behind_stop |-> FALSE]
    /\ last' = [op |-> "VideoSendStream::StopPermanentlyAndGetRtpStates",
                effects |-> <<Call("VideoStreamEncoderStop", <<>>),
                              Call("DeRegisterProcessThread", <<>>)>>]
    /\ UNCHANGED <<implVars, pc, send_stream_, thread_sync_event_>>

\* thread_sync_event_.Wait() returns in the call the thread is in.
Return ==
    /\ caller # Idle /\ thread_sync_event_
    /\ thread_sync_event_' = FALSE
    /\ caller' = Idle
    /\ last' = [op |-> "Return", from |-> caller.in,
                behind_stop |-> caller.behind_stop, effects |-> <<>>]
    /\ UNCHANGED <<implVars, worker_queue_, pc, send_stream_>>

\* OnPacketAdded, OnPacketFeedbackVector and OnEncoderConfigurationChanged
\* called off the worker queue: a copy of weak_ptr_ and the arguments are
\* posted.
PostedOffQueue(fn, arg) ==
    /\ CanPost
    /\ worker_queue_' = PostTask(worker_queue_, Closure(fn, arg))
    /\ last' = [op |-> "PostedOffQueue", fn |-> fn, effects |-> <<>>]
    /\ UNCHANGED <<implVars, pc, send_stream_, thread_sync_event_, caller>>

\* The closure in front of the queue, which the queue runs next, is one
\* of fn and has run none of its statements.
Front == Head(worker_queue_)

Ready(fn) == worker_queue_ # <<>> /\ Front.fn = fn /\ pc = 0

\* A closure that holds a raw pointer to a stream that was destroyed: the
\* call through it is undefined, the process is taken to end.
UseAfterFree(fn) ==
    /\ crashed' = TRUE
    /\ last' = [op |-> "UseAfterFree", fn |-> fn, effects |-> <<>>]
    /\ UNCHANGED <<constVars, protectionVars, feedbackVars, active_modules,
                   watchdogVars, allocator, boundVars,
                   encoder_target_rate_bps_, overheadVars, sinkVars>>

\* The closure of VideoSendStream::Start().
PostedStart ==
    /\ Ready("Start")
    /\ IF send_stream_ THEN Start ELSE ~crashed /\ UseAfterFree("Start")
    /\ worker_queue_' = Tail(worker_queue_)
    /\ thread_sync_event_' = TRUE
    /\ UNCHANGED <<pc, send_stream_, caller>>

\* The closure of VideoSendStream::Stop().
PostedStop ==
    /\ Ready("Stop")
    /\ IF send_stream_ THEN Stop ELSE ~crashed /\ UseAfterFree("Stop")
    /\ worker_queue_' = Tail(worker_queue_)
    /\ UNCHANGED <<pc, send_stream_, thread_sync_event_, caller>>

\* Mutant of WeakPtrValid: the closure does not look at the pointer.
WeakPtrAlwaysValid == TRUE

\* The closure's copy of weak_ptr_ is valid while the stream exists.
WeakPtrValid == send_stream_

\* A closure that holds a weak pointer: it calls the handler, now on the
\* worker queue, if the pointer is valid, and returns if it is not.
PostedWeak(fn) ==
    /\ Ready(fn)
    /\ worker_queue_' = Tail(worker_queue_)
    /\ UNCHANGED <<pc, send_stream_, thread_sync_event_, caller>>
    /\ IF WeakPtrValid
       THEN CASE fn = "OnPacketAdded" ->
                   OnPacketAdded(Front.arg[1], Front.arg[2])
              [] fn = "OnPacketFeedbackVector" ->
                   OnPacketFeedbackVector(Front.arg)
              [] fn = "OnEncoderConfigurationChanged" ->
                   OnEncoderConfigurationChanged(Front.arg, 0, 0)
       ELSE /\ ~crashed /\ QueueIdle
            /\ NoOp([op |-> "PostedWeak", fn |-> fn, effects |-> <<>>])

RECURSIVE ModuleReleaseCallsDeleteFirst(_)
\* Mutant of ModuleReleaseCalls: a module is deleted, then removed.
ModuleReleaseCallsDeleteFirst(n) ==
    IF n = 0 THEN <<>>
    ELSE ModuleReleaseCallsDeleteFirst(n - 1)
            \o <<Call("delete", <<n>>), Call("RemoveSendRtpModule", <<n>>)>>

RECURSIVE ModuleReleaseCalls(_)
\* The destructor's loop over modules 1..n: RemoveSendRtpModule, delete.
ModuleReleaseCalls(n) ==
    IF n = 0 THEN <<>>
    ELSE ModuleReleaseCalls(n - 1)
            \o <<Call("RemoveSendRtpModule", <<n>>), Call("delete", <<n>>)>>

\* ~VideoSendStreamImpl() and the destruction of weak_ptr_factory_, which
\* invalidates every weak pointer to the stream, those of the watchdog tasks
\* included.  use_loss_vector_mask is what fec_controller_ answers.
DestroyVideoSendStreamImpl(use_loss_vector_mask) ==
    /\ ~crashed /\ QueueIdle
    /\ tasks' = [t \in 1..MaxTasks |->
                    [tasks[t] EXCEPT !.send_stream = FALSE]]
    /\ last' = [op |-> "~VideoSendStreamImpl", was_active |-> IsActive,
                effects |->
                    (IF use_loss_vector_mask
                     THEN <<Call("DeRegisterPacketFeedbackObserver", <<>>)>>
                     ELSE <<>>) \o ModuleReleaseCalls(NumModules)]
    /\ UNCHANGED <<constVars, protectionVars, feedbackVars, active_modules,
                   check_encoder_activity_task_, allocator, boundVars,
                   encoder_target_rate_bps_, overheadVars, sinkVars, crashed>>

\* The closure of StopPermanentlyAndGetRtpStates, statement by statement:
\* send_stream_->Stop(), then GetRtpStates(), then send_stream_.reset()
\* and thread_sync_event_.Set().
PostedStopPermanently(use_loss_vector_mask) ==
    /\ worker_queue_ # <<>> /\ Front.fn = "StopPermanently" /\ send_stream_
    /\ CASE pc = 0 -> /\ Stop
                       /\ pc' = 1
                       /\ UNCHANGED <<worker_queue_, send_stream_,
                                      thread_sync_event_, caller>>
         [] pc = 1 -> /\ GetRtpStates
                       /\ pc' = 2
                       /\ UNCHANGED <<worker_queue_, send_stream_,
                                      thread_sync_event_, caller>>
         [] pc = 2 -> /\ DestroyVideoSendStreamImpl(use_loss_vector_mask)
                       /\ pc' = 0
                       /\ send_stream_' = FALSE
                       /\ thread_sync_event_' = TRUE
                       /\ worker_queue_' = Tail(worker_queue_)
                       /\ UNCHANGED caller

(***************************************************************************)
(* Specifications.                                                         *)
(***************************************************************************)
\* The stream lifecycle and the watchdog under every interleaving of the
\* worker queue with the encoder threads; rates and bounds pass through.
Next ==
    \/ Start /\ UNCHANGED queueVars
    \/ Stop /\ UNCHANGED queueVars
    \/ \E active_layers \in [1..NumModules -> BOOLEAN] :
          UpdateActiveSimulcastLayers(active_layers) /\ UNCHANGED queueVars
    \/ OnEncodedImage /\ UNCHANGED queueVars
    \/ \E t \in 1..MaxTasks : RunBegin(t) /\ UNCHANGED queueVars
    \/ \E t \in 1..MaxTasks : RunEnd(t) /\ UNCHANGED queueVars
    \/ \E streams \in FewStreamLists :
          OnEncoderConfigurationChanged(streams, 0, 0) /\ UNCHANGED queueVars
    \/ \E b \in FewBitrates, f \in FewFecTargets : OnBitrateUpdated(b, f)
          /\ UNCHANGED queueVars

Spec == InitWith({FALSE}, {FALSE}) /\ [][Next]_vars

\* The bitrate feedback loop over the numeric inputs, on a stream that is
\* started and stopped and whose bounds and overheads change.
NextRates ==
    \/ Start /\ UNCHANGED queueVars
    \/ Stop /\ UNCHANGED queueVars
    \/ \E streams \in {s \in StreamLists : Len(s) = 1} :
          OnEncoderConfigurationChanged(streams, 0, 0) /\ UNCHANGED queueVars
    \/ \E b \in Bitrates, f \in FecTargets : OnBitrateUpdated(b, f)
          /\ UNCHANGED queueVars
    \/ \E o \in Overheads : OnOverheadChanged(o) /\ UNCHANGED queueVars
    \/ \E o \in TransportOverheads : SetTransportOverhead(o)
          /\ UNCHANGED queueVars

SpecRates == InitWith(BOOLEAN, {FALSE}) /\ [][NextRates]_vars

\* The RTP states of a stream whose first and last module send, which
\* exports its states and is replaced by a stream constructed from them.
NextSsrcs ==
    \/ \E i \in {1, NumModules}, rtx \in BOOLEAN : ModuleSends(i, rtx)
          /\ UNCHANGED queueVars
    \/ FlexfecSends /\ UNCHANGED queueVars
    \/ GetRtpStates /\ UNCHANGED queueVars
    \/ VideoSendStreamImpl /\ UNCHANGED queueVars

SpecSsrcs == InitSsrcs /\ [][NextSsrcs]_vars

\* The stream behind its owner: calls of the owner's thread and of other
\* threads are posted to the worker queue, which runs them and the
\* watchdog's ticks, until the stream is destroyed and after.
NextQueue ==
    \/ VideoSendStreamStart
    \/ VideoSendStreamStop
    \/ StopPermanentlyAndGetRtpStates
    \/ Return
    \/ PostedOffQueue("OnPacketAdded", <<1, 2>>)
    \/ PostedOffQueue("OnPacketFeedbackVector",
                      <<[sequence_number |-> 3, lost |-> TRUE]>>)
    \/ \E streams \in FewStreamLists :
          PostedOffQueue("OnEncoderConfigurationChanged", streams)
    \/ PostedStart
    \/ PostedStop
    \/ \E fn \in {"OnPacketAdded", "OnPacketFeedbackVector",
                  "OnEncoderConfigurationChanged"} : PostedWeak(fn)
    \/ \E use_loss_vector_mask \in BOOLEAN :
          PostedStopPermanently(use_loss_vector_mask)
    \/ \E t \in 1..MaxTasks : pc = 0 /\ RunBegin(t) /\ UNCHANGED queueVars
    \/ \E t \in 1..MaxTasks : pc = 0 /\ RunEnd(t) /\ UNCHANGED queueVars

SpecQueue == InitWith({FALSE}, {FALSE}) /\ [][NextQueue]_vars

\* The payload bitrate of a started stream with overhead accounting on,
\* for estimates up to the order of 2^32.
NextWideRates ==
    \/ Start /\ UNCHANGED queueVars
    \/ \E b \in WideBitrates, f \in FewFecTargets : OnBitrateUpdated(b, f)
          /\ UNCHANGED queueVars
    \/ \E o \in Overheads : OnOverheadChanged(o) /\ UNCHANGED queueVars
    \/ \E o \in TransportOverheads : SetTransportOverhead(o)
          /\ UNCHANGED queueVars

SpecWideRates == InitWith({TRUE}, {FALSE}) /\ [][NextWideRates]_vars

\* The bitrate bounds of a stream that is started and stopped, over every
\* list of streams, minimum transmit bitrate and field-trial minimum.
NextBounds ==
    \/ Start /\ UNCHANGED queueVars
    \/ Stop /\ UNCHANGED queueVars
    \/ \E streams \in StreamLists, min_transmit \in MinTransmitBitrates,
          trial_min_bps \in FallbackMinBps :
          OnEncoderConfigurationChanged(streams, min_transmit, trial_min_bps)
          /\ UNCHANGED queueVars

SpecBounds == InitWith({FALSE}, BOOLEAN) /\ [][NextBounds]_vars

\* ConfigureProtection over every configuration of FlexFEC, RED, ULPFEC,
\* NACK and the payload, and both values of the field trial.
NextProtection ==
    \E disable_ulpfec \in BOOLEAN : ConfigureProtection(disable_ulpfec)
          /\ UNCHANGED queueVars

SpecProtection == InitProtection /\ [][NextProtection]_vars

\* The packet-feedback tracker of a stream that is started and gets bitrate
\* updates, which take the loss mask.
NextFeedback ==
    \/ Start /\ UNCHANGED queueVars
    \/ Stop /\ UNCHANGED queueVars
    \/ \E ssrc \in PacketSsrcs, seq_num \in AddedSeqNums :
          OnPacketAdded(ssrc, seq_num) /\ UNCHANGED queueVars
    \/ \E v \in FeedbackVectors : OnPacketFeedbackVector(v)
          /\ UNCHANGED queueVars
    \/ \E b \in FewBitrates, f \in FewFecTargets : OnBitrateUpdated(b, f)
          /\ UNCHANGED queueVars

SpecFeedback == InitFeedback /\ [][NextFeedback]_vars

(***************************************************************************)
(* Properties of the bitrate feedback loop, checked under SpecRates.       *)
(***************************************************************************)
\* The last step was an OnBitrateUpdated call that returned to the allocator.
BitrateUpdateReturned == last.op = "OnBitrateUpdated" /\ last.returned

\* C1 as stated: after every OnBitrateUpdated(bitrate_bps, ...) that returns,
\* the target pushed to the encoder plus the encoder overhead rate plus the
\* returned protection bitrate equals bitrate_bps, as integers.
C1_SumWithPushedTarget ==
    BitrateUpdateReturned =>
        SumIs(encoder_rate, last.encoder_overhead_rate_bps, last.ret,
              last.bitrate_bps)

\* C1 amended: the protection bitrate is computed from the target the FEC
\* controller returned, before that target is clamped.  That target plus the
\* encoder overhead rate plus the returned protection bitrate equals
\* bitrate_bps modulo 2^32; the rate pushed to the encoder is the smaller of
\* that target and encoder_max_bitrate_bps_; and the sum with the pushed rate
\* equals bitrate_bps as integers whenever the FEC controller's target exceeds
\* neither bitrate_bps nor encoder_max_bitrate_bps_.
C1_SumWithFecTarget ==
    BitrateUpdateReturned =>
        /\ Add32(Add32(last.fec_target, last.encoder_overhead_rate_bps),
                 last.ret) = last.bitrate_bps
        /\ encoder_rate = Min32(encoder_max_bitrate_bps_, last.fec_target)
        /\ (/\ Le32(last.fec_target, last.bitrate_bps)
            /\ Le32(last.fec_target, encoder_max_bitrate_bps_))
           => SumIs(encoder_rate, last.encoder_overhead_rate_bps, last.ret,
                    last.bitrate_bps)

\* An update with overhead accounting on, a non-zero encoder overhead and a
\* non-zero protection bitrate, whose target fits the estimate and the maximum.
C1_Witness ==
    /\ BitrateUpdateReturned
    /\ send_side_bwe_with_overhead_
    /\ last.encoder_overhead_rate_bps # U32(0)
    /\ last.ret # U32(0)
    /\ last.fec_target # U32(0)
    /\ Le32(last.fec_target, last.bitrate_bps)
    /\ Le32(last.fec_target, encoder_max_bitrate_bps_)

\* C2: whatever OnEncoderConfigurationChanged calls came before it, the rate
\* an OnBitrateUpdated call pushes to the encoder and to the statistics does
\* not exceed encoder_max_bitrate_bps_.
C2_PushedTargetWithinMax ==
    BitrateUpdateReturned =>
        /\ Le32(encoder_rate, encoder_max_bitrate_bps_)
        /\ Le32(stats_rate, encoder_max_bitrate_bps_)
        /\ ArgsOf(last.effects, "EncoderOnBitrateUpdated") = <<encoder_rate>>
        /\ ArgsOf(last.effects, "OnSetEncoderTargetRate") = <<stats_rate>>
        /\ encoder_target_rate_bps_ = encoder_rate

\* An update whose FEC target lies above a maximum that an encoder
\* reconfiguration set, so that the maximum is what is pushed.
C2_Witness ==
    /\ BitrateUpdateReturned
    /\ \A m \in InitialMaxBitrates : encoder_max_bitrate_bps_ # U32(m)
    /\ Lt32(encoder_max_bitrate_bps_, last.fec_target)
    /\ encoder_rate = encoder_max_bitrate_bps_

\* C3: with overhead accounting off, OnBitrateUpdated returns bitrate_bps
\* less the target the FEC controller returned, for a target that does not
\* exceed bitrate_bps.
C3_ProtectionWithoutOverhead ==
    (/\ BitrateUpdateReturned
     /\ ~send_side_bwe_with_overhead_
     /\ Le32(last.fec_target, last.bitrate_bps))
    => /\ last.encoder_overhead_rate_bps = U32(0)
       /\ Le32(last.ret, last.bitrate_bps)
       /\ Val(last.ret) = Val(last.bitrate_bps) - Val(last.fec_target)

\* bitrate_bps = 1,000,000 and a FEC target of 800,000 return 200,000.
C3_Witness ==
    /\ BitrateUpdateReturned
    /\ ~send_side_bwe_with_overhead_
    /\ last.bitrate_bps = U32(1000000)
    /\ last.fec_target = U32(800000)
    /\ last.ret = U32(200000)

(***************************************************************************)
(* Properties of the lifecycle and the watchdog, checked under Spec.       *)
(***************************************************************************)
\* Every variable of the program: all of them but the history variable.
progVars ==
    <<constVars, protectionVars, feedbackVars, active_modules, watchdogVars,
      allocator, boundVars,
      encoder_target_rate_bps_, overheadVars, sinkVars, crashed>>

\* C4: Start() on a stream whose payload router is active changes nothing:
\* no registration, no new watchdog task, no keyframe request.
C4_StartOnStartedIsNoOp ==
    [][(IsActive /\ last'.op = "Start")
       => (last'.effects = <<>> /\ UNCHANGED progVars)]_vars

\* A Start() that returned early on a registered, started stream.
C4_Witness ==
    /\ last.op = "Start"
    /\ last.effects = <<>>
    /\ IsActive
    /\ allocator.registered
    /\ check_encoder_activity_task_ # 0

\* C5: Stop() on a stream whose payload router is inactive changes nothing,
\* also when UpdateActiveSimulcastLayers made it inactive.
C5_StopOnStoppedIsNoOp ==
    [][(~IsActive /\ last'.op = "Stop")
       => (last'.effects = <<>> /\ UNCHANGED progVars /\ ~crashed')]_vars

\* A Stop() that returned early on a stream that was started and stopped
\* before: a stopped task is still in the queue.
C5_Witness ==
    /\ last.op = "Stop"
    /\ last.effects = <<>>
    /\ ~IsActive
    /\ \E t \in 1..MaxTasks : tasks[t].st = "queued" /\ ~tasks[t].send_stream

\* C6: Start() on a stopped stream activates the router, registers with the
\* allocator under the current minimum, maximum and padding, posts exactly
\* one new watchdog task (not timed out, no activity) with a delay of 2000 ms
\* and asks the encoder for a keyframe.
C6_StartOnStopped ==
    [][(~IsActive /\ last'.op = "Start")
       => /\ IsActive'
          /\ allocator' = [registered |-> TRUE,
                           min_bps |-> encoder_min_bitrate_bps_,
                           max_bps |-> encoder_max_bitrate_bps_,
                           pad_bps |-> max_padding_bitrate_]
          /\ Len(last'.effects) = 3
          /\ Count(last'.effects, "AddObserver") = 1
          /\ ArgsOf(last'.effects, "AddObserver")
                = <<encoder_min_bitrate_bps_, encoder_max_bitrate_bps_,
                    max_padding_bitrate_>>
          /\ Count(last'.effects, "PostDelayedTask") = 1
          /\ ArgsOf(last'.effects, "PostDelayedTask")
                = <<check_encoder_activity_task_', 2000>>
          /\ Count(last'.effects, "SendKeyFrame") = 1
          /\ check_encoder_activity_task_' \in 1..MaxTasks
          /\ tasks[check_encoder_activity_task_'].st = "free"
          /\ LET task == tasks'[check_encoder_activity_task_']
             IN  /\ task.st = "queued"
                 /\ task.send_stream
                 /\ ~task.timed_out
                 /\ task.activity = 0
          /\ \A t \in 1..MaxTasks :
                t # check_encoder_activity_task_' => tasks'[t] = tasks[t]
          /\ UNCHANGED <<boundVars, sinkVars, crashed>>]_vars

\* A Start() that ran the startup with bounds an encoder reconfiguration set.
C6_Witness ==
    /\ last.op = "Start"
    /\ Len(last.effects) = 3
    /\ IsActive
    /\ allocator.registered
    /\ allocator.min_bps = 50000
    /\ allocator.min_bps = encoder_min_bitrate_bps_

\* C7: Stop() on a started stream deactivates the router, leaves the
\* allocator, stops the watchdog task and pushes a target rate of 0 to the
\* encoder and to the statistics.
C7_StopOnStarted ==
    [][(IsActive /\ last'.op = "Stop")
       => /\ ~IsActive'
          /\ ~allocator'.registered
          /\ Count(last'.effects, "RemoveObserver") = 1
          /\ check_encoder_activity_task_ # 0
          /\ ArgsOf(last'.effects, "TaskStop") = <<check_encoder_activity_task_>>
          /\ ~tasks'[check_encoder_activity_task_].send_stream
          /\ check_encoder_activity_task_' = 0
          /\ ArgsOf(last'.effects, "EncoderOnBitrateUpdated") = <<U32(0)>>
          /\ ArgsOf(last'.effects, "OnSetEncoderTargetRate") = <<U32(0)>>
          /\ encoder_rate' = U32(0)
          /\ stats_rate' = U32(0)
          /\ ~crashed']_vars

\* A Stop() that ran the shutdown on a stream whose encoder had a non-zero
\* target rate.
C7_Witness ==
    /\ last.op = "Stop"
    /\ Len(last.effects) = 4
    /\ ~IsActive
    /\ encoder_target_rate_bps_ # U32(0)
    /\ encoder_rate = U32(0)

\* The startup sequence ran in the step that set last.
RanStartup(effects) ==
    /\ Has(effects, "AddObserver")
    /\ Has(effects, "PostDelayedTask")
    /\ Has(effects, "SendKeyFrame")

\* The shutdown sequence ran in the step that set last.
RanShutdown(effects) ==
    /\ Has(effects, "RemoveObserver")
    /\ Has(effects, "TaskStop")
    /\ Has(effects, "EncoderOnBitrateUpdated")

\* C8: UpdateActiveSimulcastLayers(flags) runs the startup sequence exactly
\* when the stream was inactive and a flag is true, the shutdown sequence
\* exactly when it was active and no flag is true, and neither when it was
\* and stays active (also with other flags) or was and stays inactive.
C8_LayersTransitions ==
    [][(last'.op = "UpdateActiveSimulcastLayers")
       => LET flags == last'.active_layers
              now_active == \E i \in 1..NumModules : flags[i]
          IN  /\ active_modules' = flags
              /\ RanStartup(last'.effects) <=> (~IsActive /\ now_active)
              /\ RanShutdown(last'.effects) <=> (IsActive /\ ~now_active)
              /\ (IsActive <=> now_active)
                    => (last'.effects = <<>>
                        /\ UNCHANGED <<watchdogVars, allocator, sinkVars>>)
              /\ ~crashed']_vars

\* An UpdateActiveSimulcastLayers that started the stream with some, not all,
\* of its layers.
C8_Witness ==
    /\ last.op = "UpdateActiveSimulcastLayers"
    /\ RanStartup(last.effects)
    /\ \E i, j \in 1..NumModules : active_modules[i] /\ ~active_modules[j]
    /\ last.active_layers = active_modules

\* C9: while the stream stays started, a run of consecutive silent ticks
\* yields one TimedOut notification, on its first tick; Active is notified
\* only after a TimedOut and TimedOut only at the start or after an Active,
\* so the notifications alternate TimedOut, Active, TimedOut, ...
C9_NotificationsAlternate ==
    [][(last'.op = "Run" /\ last'.alive)
       => LET t == last'.task
              timed_out == Count(last'.effects, "SignalEncoderTimedOut")
              active == Count(last'.effects, "SignalEncoderActive")
          IN  /\ timed_out + active <= 1
              /\ (timed_out = 1)
                    <=> (last'.loaded = 0 /\ ~tasks[t].prev_silent)
              /\ (timed_out = 1) => tasks[t].notified \in {"none", "Active"}
              /\ (active = 1) => tasks[t].notified = "TimedOut"
              /\ (active = 1) => last'.loaded = 1]_vars

\* The second silent tick of a run: the task notified TimedOut on an earlier
\* tick and notifies nothing now.
C9_Witness ==
    /\ last.op = "Run"
    /\ last.alive
    /\ last.loaded = 0
    /\ last.effects = <<>>
    /\ tasks[last.task].notified = "TimedOut"
    /\ tasks[last.task].prev_silent

\* C10 as stated: a tick of a live task that follows an UpdateEncoderActivity
\* made since the previous tick's load observes the activity, and notifies
\* Active when the task was timed out.
C10_PingObservedByNextTick ==
    [][(/\ last'.op = "Run"
        /\ last'.alive
        /\ tasks[last'.task].pinged)
       => /\ last'.loaded = 1
          /\ tasks[last'.task].timed_out
                => Count(last'.effects, "SignalEncoderActive") = 1]_vars

\* The step that set last' is a tick of a live watchdog task.
LiveTick == last'.op = "Run" /\ last'.alive

C12_StoppedTaskDoesNothing ==
    [][/\ (last'.op = "Run" /\ ~tasks[last'.task].send_stream)
            => /\ ~last'.alive
               /\ last'.effects = <<>>
               /\ tasks'[last'.task].st = "free"
               /\ UNCHANGED <<allocator, sinkVars, active_modules,
                              check_encoder_activity_task_>>
       /\ (last'.op = "Run" /\ last'.effects # <<>>)
            => last'.task = check_encoder_activity_task_
       /\ (last'.op = "RunEnd")
            => /\ tasks[last'.task].send_stream
               /\ last'.task = check_encoder_activity_task_]_vars

\* The queued tick of a stopped task ran while the task of a later startup
\* is live.
C12_Witness ==
    /\ last.op = "Run"
    /\ ~last.alive
    /\ check_encoder_activity_task_ # 0
    /\ check_encoder_activity_task_ # last.task
    /\ tasks[check_encoder_activity_task_].send_stream
    /\ tasks[last.task].st = "free"

(***************************************************************************)
(* Properties of the protection policy, checked under SpecProtection.      *)
(***************************************************************************)
\* ConfigureProtection() ran.
ProtectionConfigured == last.op = "ConfigureProtection"

\* The (RED, ULPFEC) payload types every module was given.
AppliedRed == modules[1].ulpfec_config[1]
AppliedUlpfec == modules[1].ulpfec_config[2]
SameOnEveryModule ==
    \A i \in 1..NumModules :
        /\ modules[i].ulpfec_config = modules[1].ulpfec_config
        /\ Count(last.effects, "SetUlpfecConfig") = NumModules
        /\ \E k \in 1..Len(last.effects) :
              last.effects[k] = Call("SetUlpfecConfig",
                                     <<i, AppliedRed, AppliedUlpfec>>)

\* C13: whenever FlexFEC is enabled, the RED and the ULPFEC payload type
\* ConfigureProtection gives to every module are both -1, whatever was
\* configured.
C13_FlexfecDisablesRedAndUlpfec ==
    (ProtectionConfigured /\ flexfec_sender_.created)
    => /\ SameOnEveryModule
       /\ AppliedRed = -1
       /\ AppliedUlpfec = -1

\* FlexFEC enabled with RED and ULPFEC both configured and the field trial
\* off.
C13_Witness ==
    /\ ProtectionConfigured
    /\ flexfec_sender_.created
    /\ config_.rtp.red_payload_type = 96
    /\ config_.rtp.ulpfec_payload_type = 97
    /\ ~last.disable_ulpfec
    /\ modules[NumModules].ulpfec_config = <<-1, -1>>

\* C14: for every configuration and field-trial value, the payload types
\* given to the modules never have ULPFEC enabled while RED is disabled.
C14_NoUlpfecWithoutRed ==
    ProtectionConfigured
    => /\ SameOnEveryModule
       /\ AppliedUlpfec >= 0 => AppliedRed >= 0

\* ULPFEC configured without RED, and no other rule that disables ULPFEC
\* applies: ULPFEC is disabled.
C14_Witness ==
    /\ ProtectionConfigured
    /\ config_.rtp.ulpfec_payload_type = 97
    /\ config_.rtp.red_payload_type = -1
    /\ ~flexfec_sender_.created
    /\ ~last.disable_ulpfec
    /\ config_.rtp.rtp_history_ms = 0
    /\ AppliedUlpfec = -1

\* FlexFEC disabled, field trial off, RED and ULPFEC configured, NACK on.
UlpfecWithNack ==
    /\ ProtectionConfigured
    /\ ~flexfec_sender_.created
    /\ ~last.disable_ulpfec
    /\ config_.rtp.red_payload_type >= 0
    /\ config_.rtp.ulpfec_payload_type >= 0
    /\ config_.rtp.rtp_history_ms > 0

\* C15: with FlexFEC disabled, the field trial off, RED and ULPFEC
\* configured and NACK on, ULPFEC is disabled when the payload is neither VP8
\* nor VP9, and ULPFEC and RED keep their configured payload types when it is.
C15_UlpfecWithNackNeedsPictureId ==
    UlpfecWithNack
    => /\ SameOnEveryModule
       /\ IF config_.rtp.payload_name \in {"VP8", "VP9"}
          THEN /\ AppliedUlpfec = config_.rtp.ulpfec_payload_type
               /\ AppliedRed = config_.rtp.red_payload_type
          ELSE AppliedUlpfec = -1

\* The H264 case: ULPFEC was configured and is disabled.
C15_Witness ==
    /\ UlpfecWithNack
    /\ config_.rtp.payload_name = "H264"
    /\ AppliedUlpfec = -1
    /\ AppliedRed = config_.rtp.red_payload_type

\* C16: the FEC controller is told fec_enabled = FlexFEC enabled or ULPFEC
\* enabled after all the rules, and nack_enabled = configured NACK history
\* above 0.
C16_ProtectionMethod ==
    ProtectionConfigured
    => /\ fec_controller_.set
       /\ fec_controller_.fec_enabled
             = (flexfec_sender_.created \/ AppliedUlpfec >= 0)
       /\ fec_controller_.nack_enabled = (config_.rtp.rtp_history_ms > 0)
       /\ Count(last.effects, "SetProtectionMethod") = 1
       /\ ArgsOf(last.effects, "SetProtectionMethod")
             = <<fec_controller_.fec_enabled, fec_controller_.nack_enabled>>

\* ULPFEC was configured, a rule disabled it, FlexFEC is off: the FEC
\* controller is told that FEC is off and NACK is on.
C16_Witness ==
    /\ ProtectionConfigured
    /\ config_.rtp.ulpfec_payload_type >= 0
    /\ AppliedUlpfec = -1
    /\ ~flexfec_sender_.created
    /\ ~fec_controller_.fec_enabled
    /\ fec_controller_.nack_enabled

\* C17: FlexFEC is enabled exactly when its payload type is not negative,
\* its SSRC is not 0 and exactly one protected media SSRC is listed; the
\* sender then protects that SSRC.
C17_FlexfecEnabledExactlyWhen ==
    /\ flexfec_sender_.created
          <=> (/\ config_.rtp.flexfec_payload_type >= 0
               /\ config_.rtp.flexfec_ssrc # 0
               /\ Len(config_.rtp.protected_media_ssrcs) = 1)
    /\ flexfec_sender_.created
          => /\ flexfec_sender_.protected_media_ssrc
                   = config_.rtp.protected_media_ssrcs[1]
             /\ flexfec_sender_.ssrc = config_.rtp.flexfec_ssrc
             /\ flexfec_sender_.payload_type = config_.rtp.flexfec_payload_type

\* ConfigureProtection found a FlexFEC sender that was made for payload type
\* 0 and one protected SSRC.
C17_Witness ==
    /\ ProtectionConfigured
    /\ flexfec_sender_.created
    /\ config_.rtp.flexfec_payload_type = 0
    /\ Len(config_.rtp.protected_media_ssrcs) = 1

(***************************************************************************)
(* Properties of the packet-feedback tracker, checked under SpecFeedback.  *)
(***************************************************************************)
\* C18: the feedback window never holds more than kSendSideSeqNumSetMaxSize
\* (5500) sequence numbers.  OnPacketAdded for a media SSRC inserts the
\* sequence number, and leaves the window empty when the insertion would
\* make it hold 5501 numbers; OnPacketAdded for another SSRC leaves the
\* window as it is; OnPacketFeedbackVector adds nothing to it.
C18_WindowWithinCapacity ==
    /\ [](Cardinality(feedback_packet_seq_num_set_) <= 5500)
    /\ [][/\ (last'.op = "OnPacketAdded")
               => LET inserted == feedback_packet_seq_num_set_
                                     \cup {last'.seq_num}
                  IN  feedback_packet_seq_num_set_' =
                         IF last'.ssrc \notin {1, 2}
                         THEN feedback_packet_seq_num_set_
                         ELSE IF Cardinality(inserted) = 5501 THEN {}
                         ELSE inserted
          /\ (last'.op = "OnPacketFeedbackVector")
               => feedback_packet_seq_num_set_'
                     \subseteq feedback_packet_seq_num_set_]_vars

\* An OnPacketAdded for a media SSRC that left the window empty: the
\* window held 5500 numbers and the number was a new one.
C18_Witness ==
    /\ last.op = "OnPacketAdded"
    /\ last.ssrc = 1
    /\ feedback_packet_seq_num_set_ = {}

RECURSIVE MatchedReports(_, _, _)
\* What the first n reports of a vector do to a tracker when every report
\* whose sequence number is in the window removes that number and appends
\* one entry to the loss mask.
MatchedReports(tracker, reports, n) ==
    IF n = 0 THEN tracker
    ELSE LET before == MatchedReports(tracker, reports, n - 1)
             packet == reports[n]
         IN  IF packet.sequence_number \in before.seq_nums
             THEN [seq_nums |-> before.seq_nums \ {packet.sequence_number},
                   loss_mask |-> Append(before.loss_mask, packet.lost)]
             ELSE before

\* C19 as stated: for each report of OnPacketFeedbackVector whose sequence
\* number is in the window, that number is removed from the window and one
\* entry, true for a lost packet, is appended to the loss mask; a number
\* added once yields at most one entry.
C19_MatchedReportRemovedOnce ==
    [][(last'.op = "OnPacketFeedbackVector")
       => LET reports == last'.packet_feedback_vector
              want == MatchedReports(
                          [seq_nums |-> feedback_packet_seq_num_set_,
                           loss_mask |-> loss_mask_vector_],
                          reports, Len(reports))
          IN  /\ feedback_packet_seq_num_set_' = want.seq_nums
              /\ loss_mask_vector_' = want.loss_mask]_vars

\* C20: a vector none of whose reports is for a sequence number in the
\* window changes neither the window nor the loss mask; in any vector only
\* the reports for numbers in the window append to the loss mask, after the
\* entries it holds.
C20_UnknownReportIsNoOp ==
    [][(last'.op = "OnPacketFeedbackVector")
       => LET reports == last'.packet_feedback_vector
              known == {k \in 1..Len(reports) :
                          reports[k].sequence_number
                             \in feedback_packet_seq_num_set_}
          IN  /\ known = {} => UNCHANGED feedbackVars
              /\ Len(loss_mask_vector_') - Len(loss_mask_vector_)
                    <= Cardinality(known)
              /\ SubSeq(loss_mask_vector_', 1, Len(loss_mask_vector_))
                    = loss_mask_vector_]_vars

\* A report for sequence number 3, which is not in the window, while 2 is
\* and the loss mask holds an entry.
C20_Witness ==
    /\ last.op = "OnPacketFeedbackVector"
    /\ \A k \in 1..Len(last.packet_feedback_vector) :
          last.packet_feedback_vector[k].sequence_number = 3
    /\ 3 \notin feedback_packet_seq_num_set_
    /\ 2 \in feedback_packet_seq_num_set_
    /\ Len(loss_mask_vector_) = 1
\* C21: OnBitrateUpdated hands the FEC controller the pending loss mask as
\* it is, and leaves it empty; OnPacketFeedbackVector appends to the pending
\* loss mask after the entries it holds, and no other step changes it.  So
\* each update gets the entries appended since the previous update, in
\* arrival order, and none of them twice.
C21_LossMaskHandedOverOnce ==
    [][/\ (last'.op = "OnBitrateUpdated")
           => /\ ArgsOf(last'.effects, "UpdateFecRates")[2]
                    = loss_mask_vector_
              /\ Count(last'.effects, "UpdateFecRates") = 1
              /\ loss_mask_vector_' = <<>>
       /\ (last'.op = "OnPacketFeedbackVector")
           => /\ Len(loss_mask_vector_') >= Len(loss_mask_vector_)
              /\ SubSeq(loss_mask_vector_', 1, Len(loss_mask_vector_))
                    = loss_mask_vector_
       /\ (last'.op \notin {"OnBitrateUpdated", "OnPacketFeedbackVector"})
           => UNCHANGED loss_mask_vector_]_vars

\* An update that handed over two entries, a lost packet and then a
\* received one, and left the pending loss mask empty.
C21_Witness ==
    /\ last.op = "OnBitrateUpdated"
    /\ ArgsOf(last.effects, "UpdateFecRates")[2] = <<TRUE, FALSE>>
    /\ loss_mask_vector_ = <<>>
\* C23: SetTransportOverhead(n) with n >= 1500 leaves the stored transport
\* overhead and every module's maximum RTP packet size as they are; with
\* n < 1500 it stores n and gives every module the maximum RTP packet size
\* min(config_->rtp.max_packet_size, 1500 - n).
C23_TransportOverheadWithinMtu ==
    [][(last'.op = "SetTransportOverhead")
       => LET n == last'.transport_overhead_bytes_per_packet
              room == 1500 - n
              size == IF config_.max_packet_size < room
                      THEN config_.max_packet_size ELSE room
          IN  IF n >= 1500
              THEN /\ UNCHANGED transport_overhead_bytes_per_packet_
                   /\ UNCHANGED modules
                   /\ last'.effects = <<>>
              ELSE /\ transport_overhead_bytes_per_packet_' = n
                   /\ \A i \in 1..NumModules :
                         modules'[i].max_rtp_packet_size = size]_vars

\* An overhead of exactly 1500 that was rejected after an overhead of 400
\* had been stored, which left the modules 1100 bytes.
C23_Witness ==
    /\ last.op = "SetTransportOverhead"
    /\ last.transport_overhead_bytes_per_packet = 1500
    /\ transport_overhead_bytes_per_packet_ = 400
    /\ \A i \in 1..NumModules : modules[i].max_rtp_packet_size = 1100
\* C25 as stated: when a Stop() that stopped the stream is followed by a
\* Start(), the feedback window and the pending loss mask are empty after
\* the Start(): nothing recorded before the Stop is left in them.
C25_WindowResetAcrossStopStart ==
    [][(/\ last.op = "Stop" /\ Has(last.effects, "RemoveObserver")
        /\ last'.op = "Start" /\ Has(last'.effects, "AddObserver"))
       => /\ feedback_packet_seq_num_set_' = {}
          /\ loss_mask_vector_' = <<>>]_vars
(***************************************************************************)
(* Properties of the bitrate bounds, checked under SpecBounds.             *)
(***************************************************************************)
RECURSIVE ActiveMaxSum(_, _)
\* The sum of max_bitrate_bps over the active streams among streams[1..n].
ActiveMaxSum(streams, n) ==
    IF n = 0 THEN 0
    ELSE ActiveMaxSum(streams, n - 1)
            + (IF streams[n].active THEN streams[n].max_bitrate_bps ELSE 0)

\* C26: OnEncoderConfigurationChanged sets the minimum bitrate to the
\* larger of streams[0].min_bitrate_bps and the encoder's floor (the field
\* trial's minimum, else 30000), and the maximum bitrate to the larger of
\* that minimum and the sum of max_bitrate_bps over the active streams.  It
\* then calls AddObserver once with the new minimum, maximum and padding if
\* the stream is started, and calls nothing if it is stopped.
C26_BoundsFromStreams ==
    [][(last'.op = "OnEncoderConfigurationChanged")
       => LET streams == last'.streams
              floor == IF last'.trial_min_bps > 0 THEN last'.trial_min_bps
                       ELSE 30000
              min_bps == IF streams[1].min_bitrate_bps > floor
                         THEN streams[1].min_bitrate_bps ELSE floor
              sum == ActiveMaxSum(streams, Len(streams))
              max_bps == IF sum > min_bps THEN sum ELSE min_bps
          IN  /\ encoder_min_bitrate_bps_' = min_bps
              /\ encoder_max_bitrate_bps_' = U32(max_bps)
              /\ IF \E i \in 1..NumModules : active_modules[i]
                 THEN /\ allocator' = [registered |-> TRUE,
                                       min_bps |-> min_bps,
                                       max_bps |-> U32(max_bps),
                                       pad_bps |-> max_padding_bitrate_']
                      /\ Count(last'.effects, "AddObserver") = 1
                      /\ ArgsOf(last'.effects, "AddObserver")
                            = <<min_bps, U32(max_bps), max_padding_bitrate_'>>
                 ELSE /\ allocator' = allocator
                      /\ ~allocator'.registered
                      /\ last'.effects = <<>>]_vars

\* A started stream that got an active and an inactive stream: the
\* maximum is the active stream's 700000 and the allocator has it.
C26_Witness ==
    /\ last.op = "OnEncoderConfigurationChanged"
    /\ Len(last.streams) = 2
    /\ last.streams[1].active /\ ~last.streams[2].active
    /\ encoder_max_bitrate_bps_ = U32(700000)
    /\ allocator.registered /\ allocator.max_bps = U32(700000)
(***************************************************************************)
(* Registration with the allocator, checked under Spec.                    *)
(***************************************************************************)
\* C28: in every state reached by Start, Stop, UpdateActiveSimulcastLayers,
\* OnEncoderConfigurationChanged, watchdog ticks and bitrate updates, a
\* stream that is registered with the allocator is started: some module of
\* the payload router is active.  The allocator calls OnBitrateUpdated on
\* registered observers only, so its RTC_DCHECK holds.
C28_RegisteredImpliesStarted ==
    allocator.registered => \E i \in 1..NumModules : active_modules[i]

\* A bitrate update that the allocator delivered after the watchdog had
\* re-registered the stream.
C28_Witness ==
    /\ last.op = "OnBitrateUpdated"
    /\ allocator.registered
    /\ check_encoder_activity_task_ # 0
    /\ tasks[check_encoder_activity_task_].notified = "Active"

\* C30 as stated: whenever the watchdog task the stream holds is in the
\* timed-out state, the stream is not registered with the allocator.
C30_TimedOutNotRegistered ==
    (/\ check_encoder_activity_task_ # 0
     /\ tasks[check_encoder_activity_task_].timed_out)
        => ~allocator.registered
(***************************************************************************)
(* RTP states across a restart, checked under SpecSsrcs.                   *)
(***************************************************************************)
\* C27: GetRtpStates returns a map with exactly one entry for every media
\* SSRC, every RTX SSRC and, if there is a FlexFEC sender, the FlexFEC
\* SSRC, holding the state of module i for the i-th media and RTX SSRC.  A
\* stream constructed from that map has, on every module i, the media and
\* RTX state module i had.  After any construction, a sender whose SSRC
\* has no entry in the suspended map has no state restored, and one whose
\* SSRC has an entry has that state.
C27_RtpStatesRoundTrip ==
    /\ [](last.op = "constructor"
            => \A i \in 1..NumModules :
                 /\ modules[i].ssrc = i
                 /\ modules[i].rtp_state
                       = (IF i \in DOMAIN suspended_ssrcs_
                          THEN suspended_ssrcs_[i] ELSE 0)
                 /\ modules[i].rtx_state
                       = (IF /\ config_.rtp.rtx_ssrcs # <<>>
                             /\ 10 + i \in DOMAIN suspended_ssrcs_
                          THEN suspended_ssrcs_[10 + i] ELSE 0))
    /\ [][(last'.op = "GetRtpStates")
           => /\ DOMAIN last'.ret
                    = (1..NumModules)
                      \cup (IF config_.rtp.rtx_ssrcs # <<>>
                            THEN {10 + i : i \in 1..NumModules} ELSE {})
                      \cup (IF config_.rtp.flexfec_payload_type >= 0
                            THEN {7} ELSE {})
              /\ \A i \in 1..NumModules :
                    /\ last'.ret[i] = modules[i].rtp_state
                    /\ config_.rtp.rtx_ssrcs # <<>>
                         => last'.ret[10 + i] = modules[i].rtx_state]_vars
    /\ [][(last.op = "GetRtpStates" /\ last'.op = "constructor")
           => \A i \in 1..NumModules :
                 /\ modules'[i].rtp_state = modules[i].rtp_state
                 /\ modules'[i].rtx_state = modules[i].rtx_state]_vars

\* A stream constructed from the map of a stream with RTX and FlexFEC
\* whose module 1 had sent a media packet and no RTX packet, and whose
\* last module had sent an RTX packet and no media packet.
C27_Witness ==
    /\ last.op = "constructor"
    /\ DOMAIN suspended_ssrcs_
          = (1..NumModules) \cup {10 + i : i \in 1..NumModules} \cup {7}
    /\ modules[1].rtp_state = 1 /\ modules[1].rtx_state = 0
    /\ modules[NumModules].rtp_state = 0
    /\ modules[NumModules].rtx_state = 1
\* What the stream's members and collaborators hold, the watchdog's task
\* slots aside.
streamState == <<constVars, protectionVars, feedbackVars, active_modules,
                 check_encoder_activity_task_, allocator, boundVars,
                 encoder_target_rate_bps_, overheadVars, sinkVars, crashed>>

\* C22: work that holds a weak reference to the stream (a queued watchdog
\* tick, a closure posted by OnPacketAdded, OnPacketFeedbackVector or
\* OnEncoderConfigurationChanged from another thread) and runs after the
\* stream was destroyed does nothing: it makes no call and no member or
\* collaborator changes.
C22_WeakWorkAfterTeardownIsNoOp ==
    [][~send_stream_ =>
          /\ UNCHANGED streamState
          /\ last'.effects = <<>>
          /\ last'.op = "Run" => ~last'.alive]_vars

\* A posted closure ran after the stream was destroyed while a watchdog
\* task is still queued.
C22_Witness ==
    /\ ~send_stream_
    /\ last.op = "PostedWeak"
    /\ \E t \in 1..MaxTasks : tasks[t].st = "queued"

\* C24: teardown runs in order.  When the stream is destroyed it is stopped
\* (no module active, not registered with the allocator, no watchdog task
\* holding it) and the closure has exported its RTP states (pc = 2), which
\* it did after its call of Stop (pc = 1) from a stream that was stopped; the packet-feedback observer is deregistered
\* before any module is released, and every module is removed from the
\* packet router before it is deleted, once each.
C24_TeardownOrder ==
    /\ [][last'.op = "~VideoSendStreamImpl" =>
             LET e == last'.effects
             IN  /\ ~last'.was_active
                 /\ ~allocator.registered
                 /\ \A t \in 1..MaxTasks : ~tasks[t].send_stream
                 /\ pc = 2
                 /\ \A k \in 1..Len(e) :
                       e[k].call = "DeRegisterPacketFeedbackObserver" => k = 1
                 /\ \A i \in 1..NumModules :
                       /\ Count(e, "RemoveSendRtpModule") = NumModules
                       /\ Count(e, "delete") = NumModules
                       /\ \E j, k \in 1..Len(e) :
                             /\ j < k
                             /\ e[j] = Call("RemoveSendRtpModule", <<i>>)
                             /\ e[k] = Call("delete", <<i>>)]_vars
    /\ [][last'.op = "GetRtpStates" =>
             /\ pc = 1
             /\ ~IsActive /\ ~allocator.registered
             /\ send_stream_]_vars

\* A stream that was started is destroyed, its observer deregistered.
C24_Witness ==
    /\ last.op = "~VideoSendStreamImpl"
    /\ Has(last.effects, "DeRegisterPacketFeedbackObserver")
    /\ ~send_stream_
    /\ \E t \in 1..MaxTasks : tasks[t].st = "queued"

\* C29: VideoSendStream::Start() returns when Start has run on the worker
\* queue, the stream is Started and, the queue being first in first out,
\* no Stop posted before it is still to run; VideoSendStream::Stop() posts
\* and returns, the stream as it was.  A Stop() followed by a Start()
\* leaves the stream Started.
C29_StartSynchronousStopPosted ==
    /\ [][(last'.op = "Return" /\ last'.from = "Start") =>
             /\ IsActive
             /\ \A k \in 1..Len(worker_queue_) :
                   worker_queue_[k].fn # "Start"
             /\ \A k \in 1..Len(worker_queue_') :
                   worker_queue_'[k].fn # "Stop"]_vars
    /\ [][last'.op = "VideoSendStream::Stop" =>
             /\ UNCHANGED <<implVars, caller, thread_sync_event_>>
             /\ Len(worker_queue_') = Len(worker_queue_) + 1]_vars

\* Start() has returned from a call made while a Stop closure was queued.
C29_Witness ==
    /\ last.op = "Return" /\ last.from = "Start" /\ last.behind_stop
    /\ IsActive
(***************************************************************************)
(* Properties of the overhead arithmetic.                                  *)
(***************************************************************************)
\* m * n >= 2^32, for 0 <= m < 2^15 and 0 <= n < 2^31.
MulExceeds32(m, n) == m * (n \div Base) + ((m * (n % Base)) \div Base) >= Base

\* min(m * n, max_bps) with the product taken in the integers.
MinOfProduct(m, n, max_bps) ==
    IF MulExceeds32(m, n) THEN max_bps ELSE Min32(MulTrunc32(m, n), max_bps)

\* An OnBitrateUpdated call, with overhead accounting on, has handed a
\* payload bitrate to the FEC controller.
PayloadHandedOver ==
    /\ last.op = "OnBitrateUpdated"
    /\ send_side_bwe_with_overhead_

\* ceil(bitrate_bps / (8 * (max_packet_size + transport_overhead))) of the
\* last update.
PayloadPacketRate ==
    CalculatePacketRate(last.bitrate_bps,
        config_.max_packet_size + transport_overhead_bytes_per_packet_)

C32_ProtectionWithinBitrate ==
    (BitrateUpdateReturned
     /\ Le32(last.fec_target, last.payload_bitrate_bps))
    => /\ Le32(last.fec_target, last.bitrate_bps)
       /\ Le32(last.encoder_overhead_rate_bps,
               Sub32(last.bitrate_bps, last.fec_target))
       /\ Le32(Add32(last.fec_target, last.encoder_overhead_rate_bps),
               last.bitrate_bps)
       /\ Le32(last.ret, last.bitrate_bps)
       /\ SumIs(last.fec_target, last.encoder_overhead_rate_bps, last.ret,
                last.bitrate_bps)

\* An update with overhead accounting on whose target lies below the
\* payload bitrate, with a non-zero encoder overhead and protection.
C32_Witness ==
    /\ BitrateUpdateReturned
    /\ send_side_bwe_with_overhead_
    /\ Lt32(U32(0), last.fec_target)
    /\ Lt32(last.fec_target, last.payload_bitrate_bps)
    /\ Lt32(last.payload_bitrate_bps, last.bitrate_bps)
    /\ Lt32(U32(0), last.encoder_overhead_rate_bps)
    /\ Lt32(U32(0), last.ret)
\* C33: with overhead accounting on, whatever overheads OnOverheadChanged
\* and SetTransportOverhead accepted, the packet sizes OnBitrateUpdated
\* divides by, max_packet_size + transport_overhead and max_packet_size +
\* transport_overhead - overhead_per_packet, are above zero.
C33_PacketSizesPositive ==
    send_side_bwe_with_overhead_ =>
        /\ config_.max_packet_size + transport_overhead_bytes_per_packet_ > 0
        /\ config_.max_packet_size + transport_overhead_bytes_per_packet_
              - overhead_bytes_per_packet_ > 0
(***************************************************************************)
(* The stream and its watchdog task.                                       *)
(***************************************************************************)
\* The watchdog tasks that were not stopped.
LiveTasks == {t \in 1..MaxTasks : tasks[t].st # "free" /\ tasks[t].send_stream}

\* C34: in every state Start, Stop and UpdateActiveSimulcastLayers lead to,
\* the stream holds a watchdog task exactly when it is Started; the task it
\* holds is the one task that was not stopped, and there is no other; no
\* shutdown found the task missing; and the startup sequence runs only when
\* no task is held, the shutdown sequence only when one is.
C34_TaskHeldIffStarted ==
    /\ [](/\ (check_encoder_activity_task_ # 0) <=> IsActive
          /\ LiveTasks = IF check_encoder_activity_task_ # 0
                         THEN {check_encoder_activity_task_} ELSE {}
          /\ ~crashed)
    /\ [][/\ RanStartup(last'.effects) => check_encoder_activity_task_ = 0
          /\ (last'.op \in {"Stop", "UpdateActiveSimulcastLayers"}
              /\ Has(last'.effects, "RemoveObserver"))
                => (check_encoder_activity_task_ # 0
                    /\ last'.effects[2]
                          = Call("TaskStop", <<check_encoder_activity_task_>>)
                    /\ check_encoder_activity_task_' = 0)]_vars

\* A stream that was stopped by UpdateActiveSimulcastLayers and started
\* again holds its second task while the first, stopped, is still queued.
C34_Witness ==
    /\ IsActive
    /\ check_encoder_activity_task_ # 0
    /\ \E t \in 1..MaxTasks :
          /\ t # check_encoder_activity_task_
          /\ tasks[t].st = "queued" /\ ~tasks[t].send_stream
    /\ RanStartup(last.effects)

\* C35: OnEncodedImage, whatever Start, Stop and the ticks on the worker
\* queue did before and also between the two halves of a tick, pings a
\* task exactly when the stream holds one, and then that task, which is in
\* the queue and was not stopped; it changes nothing else; while the stream
\* is Stopped it records no activity on any task.
C35_PingOnlyHeldTask ==
    [][last'.op = "OnEncodedImage" =>
          /\ Has(last'.effects, "UpdateEncoderActivity")
                <=> check_encoder_activity_task_ # 0
          /\ check_encoder_activity_task_ # 0 =>
                /\ last'.effects = <<Call("UpdateEncoderActivity",
                                          <<check_encoder_activity_task_>>)>>
                /\ tasks[check_encoder_activity_task_].st # "free"
                /\ tasks[check_encoder_activity_task_].send_stream
                /\ tasks'[check_encoder_activity_task_].activity = 1
                /\ \A t \in 1..MaxTasks :
                      t # check_encoder_activity_task_ => tasks'[t] = tasks[t]
          /\ ~IsActive => (last'.effects = <<>> /\ tasks' = tasks)
          /\ UNCHANGED <<active_modules, check_encoder_activity_task_,
                         allocator, sinkVars, crashed>>]_vars

\* A frame was encoded while the stream was stopped and its stopped task
\* was still in the queue; nothing was pinged.
C35_Witness ==
    /\ last.op = "OnEncodedImage"
    /\ last.effects = <<>>
    /\ ~IsActive
    /\ \E t \in 1..MaxTasks : tasks[t].st = "queued" /\ tasks[t].activity = 0
\* C36: OnPacketFeedbackVector removes from the window only sequence numbers
\* that one of its reports carries: a number in the window that is not
\* reported is in the window afterwards.
C36_OnlyReportedRemoved ==
    [][(last'.op = "OnPacketFeedbackVector")
       => LET reports == last'.packet_feedback_vector
              reported == {reports[k].sequence_number : k \in 1..Len(reports)}
          IN  \A seq_num \in feedback_packet_seq_num_set_ :
                 seq_num \notin reported
                    => seq_num \in feedback_packet_seq_num_set_']_vars
\* C37: the padding bitrate the allocator holds for a registered stream
\* does not exceed the maximum bitrate it holds for it, whatever list of
\* streams OnEncoderConfigurationChanged got, lists with inactive layers
\* included.
C37_PaddingWithinMax ==
    allocator.registered =>
        Le32(U32(allocator.pad_bps), allocator.max_bps)
\* C38: the encoder target rate the stream stores, which the TimedOut
\* handler tests against zero, is the rate last pushed to the encoder (0
\* before any was pushed), after every sequence of OnBitrateUpdated, Stop,
\* Start and UpdateActiveSimulcastLayers; it is 0 on a stopped stream that
\* was started before.
C38_StoredTargetIsPushedTarget ==
    encoder_target_rate_bps_ = encoder_rate
\* C39: whenever ConfigureProtection tells the FEC controller that FEC is
\* enabled, some module carries FEC: it was given an enabled ULPFEC payload
\* type or it was created with the FlexFEC sender; for every configuration,
\* also one whose FlexFEC protected SSRC is none of the media SSRCs.
C39_FecEnabledIsCarried ==
    (ProtectionConfigured /\ fec_controller_.fec_enabled)
    => \E i \in 1..NumModules :
          modules[i].flexfec_sender \/ modules[i].ulpfec_config[2] >= 0
====
